---- MODULE Spec2Model ----
(***************************************************************************)
(* Model of the umbrella decision core of umbrella-app:                    *)
(*   weatherApi   (extractHourlyForecasts, determineUmbrella,              *)
(*                 determineCombinedUmbrella and their helpers)            *)
(*   storageService (getDaySchedule, getTodaySchedule, getTomorrowSchedule,*)
(*                 loadSettings, saveWeatherCache, loadWeatherCache)       *)
(*   weatherApi   (fetchWeatherForecast, parseWeatherData, isOfflineError) *)
(*   locationService (getCurrentLocation)                                  *)
(*   SettingsScreen (handleRemoveLocation, the weekday pickers)            *)
(*   HomeScreen   (fetchData, the fetch cycle)                             *)
(*   storageService (saveSettings, loadSettings over the settings item)    *)
(*   SettingsScreen (the weekday handlers, handleSelectLocation)           *)
(*   notificationService (sendUmbrellaCheckNotification,                   *)
(*                 syncDailyNotificationWithSettings,                      *)
(*                 scheduleBeforeOutingNotifications)                      *)
(*   App          (the received-listener)                                  *)
(*                                                                         *)
(* Representation                                                          *)
(*  - an optional value (T | undefined | null) is a sequence of length 0   *)
(*    or 1: <<>> is undefined/null, <<v>> is the value v;                  *)
(*  - a string that the code parses with Number() is a token record:       *)
(*    Num(v) is a decimal numeral, v in tenths (Num(5) is "0.5",           *)
(*    Num(300) is "30"); EmptyStr is ""; Garbage is a non-numeric string;  *)
(*  - every number is kept in tenths, so 0.5 mm is 5 and 50 % is 500;      *)
(*  - a clock string "HH:MM" is the record [hour, minute];                 *)
(*  - a timeDefines entry (an ISO timestamp) is the number of hours since  *)
(*    the local midnight of the forecast's first day, so its              *)
(*    getHours() is the value modulo 24;                                   *)
(*  - an area code is a sequence of one-character strings;                 *)
(*  - a JS Map is the sequence of its <<key, value>> entries in insertion  *)
(*    order, each key once.                                                *)
(***************************************************************************)
EXTENDS Integers, Sequences, FiniteSets, TLC

VARIABLES forecast, outingTime, criteria, hourlyForecasts, umbrellaResult,
          originResult, destinationResult, combinedResult,
          settings, now, scheduleResult,
          cache, dateNow, fetchCall, loadCall,
          cycles, screen, triggers,
          edits, removal,
          asyncStorage, lastOp,
          scheduled, notificationPermission, syncs, reminder

vars == <<forecast, outingTime, criteria, hourlyForecasts, umbrellaResult,
          originResult, destinationResult, combinedResult,
          settings, now, scheduleResult,
          cache, dateNow, fetchCall, loadCall,
          cycles, screen, triggers,
          edits, removal,
          asyncStorage, lastOp,
          scheduled, notificationPermission, syncs, reminder>>

weatherVars == <<forecast, outingTime, criteria, hourlyForecasts, umbrellaResult>>
combinedVars == <<originResult, destinationResult, combinedResult>>
scheduleVars == <<settings, now, scheduleResult>>
cacheVars == <<cache, dateNow, fetchCall, loadCall>>
cycleVars == <<cycles, screen, triggers>>
editVars == <<edits, removal>>
storageVars == <<asyncStorage, lastOp>>
notificationVars == <<scheduled, notificationPermission, syncs, reminder>>

\* ------------------------------------------------------------------------
\* Bounds
\* ------------------------------------------------------------------------
\* largest number of timeDefines in a generated series
MaxLen == 2

\* ------------------------------------------------------------------------
\* Values
\* ------------------------------------------------------------------------
Num(v) == [t |-> "num", v |-> v]
EmptyStr == [t |-> "empty", v |-> 0]
Garbage == [t |-> "text", v |-> 0]
Undefined == [t |-> "undefined", v |-> 0]

\* values[index] of a JS array: undefined outside the array
At(values, i) == IF i \in 1..Len(values) THEN values[i] ELSE Undefined

Time(h, m) == [hour |-> h, minute |-> m]

Min2(a, b) == IF a <= b THEN a ELSE b
Abs(x) == IF x < 0 THEN 0 - x ELSE x

\* Math.max(...xs) of a non-empty list
RECURSIVE MathMax(_)
MathMax(xs) ==
  IF Len(xs) = 1 THEN xs[1]
  ELSE LET m == MathMax(Tail(xs)) IN IF xs[1] >= m THEN xs[1] ELSE m

\* ------------------------------------------------------------------------
\* weatherApi helpers
\* ------------------------------------------------------------------------
\* "HH:MM" -> minutes since midnight
parseTimeToMinutes(time) == time.hour * 60 + time.minute

\* Number(value) guarded against undefined, "" and non-finite results
parseNumber(value) == IF value.t = "num" THEN value.v ELSE 0

\* String.prototype.startsWith
StartsWith(s, p) == Len(s) >= Len(p) /\ SubSeq(s, 1, Len(p)) = p

\* Array.prototype.find over the per-element test results: the index of the
\* first element that passes, 0 when none does
FirstIndex(passes) ==
  IF \E i \in 1..Len(passes) : passes[i]
  THEN CHOOSE i \in 1..Len(passes) : passes[i] /\ \A j \in 1..(i - 1) : ~passes[j]
  ELSE 0

\* the prefix match tried before the exact one
pickAreaByCode_PrefixFirst(areas, areaCode) ==
  LET exact == FirstIndex([i \in 1..Len(areas) |-> areas[i].area.code = areaCode])
      pre == SubSeq(areaCode, 1, Min2(2, Len(areaCode)))
      prefix == FirstIndex([i \in 1..Len(areas) |-> StartsWith(areas[i].area.code, pre)])
  IN IF prefix # 0 THEN <<areas[prefix]>>
     ELSE IF exact # 0 THEN <<areas[exact]>>
     ELSE IF Len(areas) > 0 THEN <<areas[1]>>
     ELSE <<>>

\* exact code, else first area with the 2-character prefix, else first area
pickAreaByCode(areas, areaCode) ==
  LET exact == FirstIndex([i \in 1..Len(areas) |-> areas[i].area.code = areaCode])
      pre == SubSeq(areaCode, 1, Min2(2, Len(areaCode)))
      prefix == FirstIndex([i \in 1..Len(areas) |-> StartsWith(areas[i].area.code, pre)])
  IN IF exact # 0 THEN <<areas[exact]>>
     ELSE IF prefix # 0 THEN <<areas[prefix]>>
     ELSE IF Len(areas) > 0 THEN <<areas[1]>>
     ELSE <<>>

\* some area of the series carries an array under one of the keys
SeriesHasKeys(series, keys) ==
  \E i \in 1..Len(series.areas) : \E k \in 1..Len(keys) :
    series.areas[i][keys[k]] # <<>>

\* first series in which some area carries an array under one of the keys
findTimeSeriesByKeys(timeSeries, keys) ==
  LET hit == FirstIndex([i \in 1..Len(timeSeries) |-> SeriesHasKeys(timeSeries[i], keys)])
  IN IF hit # 0 THEN <<timeSeries[hit]>> ELSE <<>>

\* precipitation array of an area under either field name
getPrecipitations(area) ==
  IF area = <<>> THEN <<>>
  ELSE IF area[1].precipitation # <<>> THEN area[1].precipitation[1]
  ELSE IF area[1].precipitations # <<>> THEN area[1].precipitations[1]
  ELSE <<>>

\* Map.get: value of the key, <<>> when the key is absent
MapGet(map, key) ==
  LET i == FirstIndex([j \in 1..Len(map) |-> map[j][1] = key])
  IN IF i # 0 THEN <<map[i][2]>> ELSE <<>>

MapHas(map, key) == \E i \in 1..Len(map) : map[i][1] = key

\* Map.set: replaces the value of an existing key in place, else appends
MapSet(map, key, value) ==
  IF MapHas(map, key)
  THEN [i \in 1..Len(map) |-> IF map[i][1] = key THEN <<key, value>> ELSE map[i]]
  ELSE Append(map, <<key, value>>)

\* x ?? d
OrElse(opt, d) == IF opt = <<>> THEN d ELSE opt[1]

\* timestamp -> value map of a series, later duplicates overwrite
RECURSIVE BuildValueMapFrom(_, _, _, _)
BuildValueMapFrom(timeDefines, values, index, map) ==
  IF index > Len(timeDefines) THEN map
  ELSE BuildValueMapFrom(timeDefines, values, index + 1,
         MapSet(map, timeDefines[index], parseNumber(At(values, index))))

buildValueMap(series, values) ==
  IF series = <<>> THEN <<>>
  ELSE BuildValueMapFrom(series[1].timeDefines, values, 1, <<>>)

\* new Date(timeStr).getHours()
getHours(timeStr) == timeStr % 24

\* Math.round(duration * ratio) for ratio = k/3, k in 0..3.  The doubles
\* nearest 1/3 and 2/3 are below 1/3 and 2/3 by less than 1e-16 and
\* duration <= 1440, so the product is within 1e-12 of duration*k/3, whose
\* fraction is 0, 1/3 or 2/3: rounding half up gives floor(duration*k/3 + 1/2).
RoundRatio(duration, k) == (2 * k * duration + 3) \div 6

\* window length in minutes
Duration(startMinutes, endMinutes) ==
  IF endMinutes >= startMinutes
  THEN endMinutes - startMinutes
  ELSE (24 * 60 - startMinutes) + endMinutes

\* the wrap past midnight forgotten
TimePoint_NoWrap(startMinutes, duration, k) ==
  startMinutes + RoundRatio(duration, k)

\* one of the 4 time points (k = 0..3), wrapped once past midnight
TimePoint(startMinutes, duration, k) ==
  LET minutes == startMinutes + RoundRatio(duration, k)
  IN IF minutes >= 24 * 60 THEN minutes - 24 * 60 ELSE minutes

timePoints(outing) ==
  LET startMinutes == parseTimeToMinutes(outing.start)
      endMinutes == parseTimeToMinutes(outing.end)
      duration == Duration(startMinutes, endMinutes)
  IN [i \in 1..4 |-> TimePoint(startMinutes, duration, i - 1)]

\* every timestamp replaces the entry of its hour
FirstSeen_Always(map, hour) == TRUE

\* popByHour / precipByHour: first timestamp of each hour wins
FirstSeen(map, hour) == ~MapHas(map, hour)

RECURSIVE BuildByHour(_, _, _, _, _)
BuildByHour(popTimeDefines, pops, precipitationByTime, index, maps) ==
  IF index > Len(popTimeDefines) THEN maps
  ELSE LET timeStr == popTimeDefines[index]
           hour == getHours(timeStr)
       IN BuildByHour(popTimeDefines, pops, precipitationByTime, index + 1,
            IF FirstSeen(maps.popByHour, hour)
            THEN [popByHour |-> MapSet(maps.popByHour, hour, parseNumber(At(pops, index))),
                  precipByHour |-> MapSet(maps.precipByHour, hour,
                                     OrElse(MapGet(precipitationByTime, timeStr), 0))]
            ELSE maps)

\* a tie replaces the hour found before
Closer_OrEqual(diff, minDiff) == minDiff = <<>> \/ diff <= minDiff[1]

\* diff < minDiff, minDiff = <<>> standing for Infinity
Closer(diff, minDiff) == minDiff = <<>> \/ diff < minDiff[1]

\* scan of popByHour in insertion order for the hour nearest to `hour`
RECURSIVE Closest(_, _, _, _, _)
Closest(popByHour, precipByHour, hour, index, acc) ==
  IF index > Len(popByHour) THEN acc
  ELSE LET h == popByHour[index][1]
           pop == popByHour[index][2]
           diff == Abs(h - hour)
       IN Closest(popByHour, precipByHour, hour, index + 1,
            IF Closer(diff, acc.minDiff)
            THEN [minDiff |-> <<diff>>, closestPop |-> pop,
                  closestPrecip |-> OrElse(MapGet(precipByHour, h), 0)]
            ELSE acc)

\* arr?.[0] || fallback for an optional array of strings
FirstOr(optArr, fallback) ==
  IF optArr = <<>> THEN fallback
  ELSE IF Len(optArr[1]) = 0 THEN fallback
  ELSE IF optArr[1][1] = "" THEN fallback
  ELSE optArr[1][1]

\* the sample pushed for one time point
Sample(minutes, weatherArea, popByHour, precipByHour) ==
  LET hour == minutes \div 60
      minute == minutes % 60
      c == Closest(popByHour, precipByHour, hour, 1,
             [minDiff |-> <<>>, closestPop |-> 0, closestPrecip |-> 0])
  IN [time |-> Time(hour, minute),
      weather |-> FirstOr(weatherArea.weathers, ""),
      weatherCode |-> FirstOr(weatherArea.weatherCodes, "100"),
      pop |-> c.closestPop,
      precipitation |-> c.closestPrecip]

\* a series without timestamps taken for a missing series
HasWeatherAndPop_NeedsTimes(weatherSeries, popSeries) ==
  /\ weatherSeries # <<>>
  /\ popSeries # <<>>
  /\ Len(popSeries[1].timeDefines) > 0

HasWeatherAndPop(weatherSeries, popSeries) == weatherSeries # <<>> /\ popSeries # <<>>

extractHourlyForecasts(fc, outing) ==
  LET weatherSeries == findTimeSeriesByKeys(fc.timeSeries, <<"weatherCodes", "weathers">>)
      popSeries == findTimeSeriesByKeys(fc.timeSeries, <<"pops">>)
      precipitationSeries ==
        findTimeSeriesByKeys(fc.timeSeries, <<"precipitation", "precipitations">>)
  IN IF ~HasWeatherAndPop(weatherSeries, popSeries) THEN <<>>
     ELSE
       LET weatherArea == pickAreaByCode(weatherSeries[1].areas, fc.areaCode)
           popArea == pickAreaByCode(popSeries[1].areas, fc.areaCode)
           precipitationArea ==
             IF precipitationSeries # <<>>
             THEN pickAreaByCode(precipitationSeries[1].areas, fc.areaCode)
             ELSE <<>>
       IN IF weatherArea = <<>> \/ popArea = <<>> THEN <<>>
          ELSE
            LET popTimeDefines == popSeries[1].timeDefines
                pops == OrElse(popArea[1].pops, <<>>)
                precipitationByTime ==
                  buildValueMap(precipitationSeries, getPrecipitations(precipitationArea))
                maps == BuildByHour(popTimeDefines, pops, precipitationByTime, 1,
                          [popByHour |-> <<>>, precipByHour |-> <<>>])
                points == timePoints(outing)
            IN [i \in 1..4 |->
                  Sample(points[i], weatherArea[1], maps.popByHour, maps.precipByHour)]

\* ------------------------------------------------------------------------
\* determineUmbrella
\* ------------------------------------------------------------------------
DEFAULT_CRITERIA == [popThreshold |-> 500, precipitationThreshold |-> 10, logic |-> "or"]

\* a strict comparison in place of the inclusive one
Exceeds_Strict(value, threshold) == value > threshold

\* a >= threshold
Exceeds(value, threshold) == value >= threshold

\* maxPop >= popThreshold * 0.6.  The double nearest 0.6 is below 0.6 by
\* about 2e-17 and rounding is monotone, so for a threshold of 0..100 and a
\* maxPop that is a numeral with at most one decimal the comparison in
\* doubles is the exact comparison 10 * maxPop >= 6 * popThreshold.
InRecommendedBand_Strict(maxPop, popThreshold) == 10 * maxPop > 6 * popThreshold

InRecommendedBand(maxPop, popThreshold) == 10 * maxPop >= 6 * popThreshold

\* criteria.logic === 'or' ? a || b : a && b
Combine(logic, popExceeds, precipExceeds) ==
  IF logic = "or" THEN popExceeds \/ precipExceeds ELSE popExceeds /\ precipExceeds

\* maximum of one field over the samples, 0 when there are none
MaxField(samples, field) ==
  IF Len(samples) > 0
  THEN MathMax([i \in 1..Len(samples) |-> samples[i][field]])
  ELSE 0

determineUmbrella(fc, outing, crit) ==
  LET samples == extractHourlyForecasts(fc, outing)
      maxPop == MaxField(samples, "pop")
      maxPrecipitation == MaxField(samples, "precipitation")
      popExceedsThreshold == Exceeds(maxPop, crit.popThreshold)
      precipExceedsThreshold == Exceeds(maxPrecipitation, crit.precipitationThreshold)
      umbrellaRequired == Combine(crit.logic, popExceedsThreshold, precipExceedsThreshold)
      decision ==
        IF umbrellaRequired THEN "required"
        ELSE IF InRecommendedBand(maxPop, crit.popThreshold) THEN "recommended"
        ELSE "not_required"
      message ==
        IF umbrellaRequired
        THEN IF popExceedsThreshold /\ precipExceedsThreshold
             THEN <<"bring_umbrella_pop_precip", maxPop, maxPrecipitation>>
             ELSE IF precipExceedsThreshold
             THEN <<"bring_umbrella_precip", maxPrecipitation>>
             ELSE <<"bring_umbrella_pop", maxPop>>
        ELSE IF InRecommendedBand(maxPop, crit.popThreshold)
        THEN <<"folding_umbrella_just_in_case">>
        ELSE <<"no_umbrella_needed">>
  IN [decision |-> decision, message |-> message, maxPop |-> maxPop,
      hourlyForecasts |-> samples]

\* ------------------------------------------------------------------------
\* Inputs of the weather pipeline
\* ------------------------------------------------------------------------
C130000 == <<"1", "3", "0", "0", "0", "0">>
C130010 == <<"1", "3", "0", "0", "1", "0">>
C140000 == <<"1", "4", "0", "0", "0", "0">>
C270000 == <<"2", "7", "0", "0", "0", "0">>

NoFields ==
  [weatherCodes |-> <<>>, weathers |-> <<>>, pops |-> <<>>,
   precipitation |-> <<>>, precipitations |-> <<>>,
   temps |-> <<>>, tempsMin |-> <<>>, tempsMax |-> <<>>]

Area(name, code) == [area |-> [name |-> name, code |-> code]] @@ NoFields

\* the two areas of every generated series: a neighbour first, then the
\* area of the requested office (matched by its 2-character prefix)
Neighbour == Area("Kanagawa", C140000)
Target == Area("Tokyo", C130010)

WeatherSeries ==
  [timeDefines |-> <<17, 24>>,
   areas |-> <<[Neighbour EXCEPT !.weatherCodes = <<<<"300", "300">>>>,
                                 !.weathers = <<<<"rain", "rain">>>>],
               [Target EXCEPT !.weatherCodes = <<<<"101", "200">>>>,
                              !.weathers = <<<<"sunny", "cloudy">>>>]>>]

TempSeries ==
  [timeDefines |-> <<24, 33>>,
   areas |-> <<[Neighbour EXCEPT !.temps = <<<<Num(20), Num(90)>>>>],
               [Target EXCEPT !.temps = <<<<Num(30), Num(110)>>>>]>>]

\* the neighbour's values: larger than every value generated for the target
DecoyValues(n) == [i \in 1..n |-> Num(990)]

\* rain-probability series; targetPops is <<>> (no pops for the target) or <<arr>>
PopSeries(times, targetPops) ==
  [timeDefines |-> times,
   areas |-> <<[Neighbour EXCEPT !.pops = <<DecoyValues(Len(times))>>],
               [Target EXCEPT !.pops = targetPops]>>]

\* precipitation series under the field name `key`
PrecipSeries(times, key, values) ==
  [timeDefines |-> times,
   areas |-> <<[Neighbour EXCEPT ![key] = <<DecoyValues(Len(times))>>],
               [Target EXCEPT ![key] = <<values>>]>>]

Opt(present, v) == IF present THEN <<v>> ELSE <<>>

Forecast(areaCode, series) ==
  [areaCode |-> areaCode, areaName |-> "Tokyo", publishingOffice |-> "JMA",
   reportDatetime |-> 5, timeSeries |-> series]

\* timestamps at 06:00, 18:00 of the first day, then 06:00, 18:00 of the next ...
StampAt(i) == 12 * i - 6
Stamps(n) == [i \in 1..n |-> StampAt(i)]

PopTokens == {Num(0), Num(300), Num(600)}
PrecipTokens == {Num(0), Num(5), Num(10)}

\* forecasts of the decision specification: weather, pops and optionally
\* precipitation on the same timestamps, every combination of values
\* forecasts for which the sampler finds no rain-probability series or no
\* weather series
NoSampleForecasts ==
  { Forecast(C130000, <<TempSeries>>),
    Forecast(C130000, <<WeatherSeries, TempSeries>>),
    Forecast(C130000, <<PopSeries(Stamps(1), <<<<Num(600)>>>>), TempSeries>>),
    Forecast(C130000, <<PrecipSeries(Stamps(1), "precipitation", <<Num(100)>>)>>) }

ValuedForecasts ==
  UNION { UNION { { Forecast(C130000, <<WeatherSeries, PopSeries(Stamps(n), <<pops>>)>>) }
                  \cup
                  { Forecast(C130000, <<WeatherSeries, PopSeries(Stamps(n), <<pops>>),
                                        PrecipSeries(Stamps(n), "precipitation", precs)>>)
                    : precs \in [1..n -> PrecipTokens] }
                  : pops \in [1..n -> PopTokens] }
          : n \in 1..MaxLen }

DecideForecasts == ValuedForecasts \cup NoSampleForecasts

POP_OPTIONS == {0, 100, 200, 300, 400, 500, 600, 700, 800, 900, 1000}
PRECIP_OPTIONS == {0, 5, 10, 20, 30, 50, 100, 200}

Criteria == [popThreshold : POP_OPTIONS, precipitationThreshold : PRECIP_OPTIONS,
             logic : {"and", "or"}]

\* criteria of the decision specification: every probability option, the
\* precipitation options up to 2 mm
DecideCriteria == { c \in Criteria : c.precipitationThreshold <= 20 }

DecideWindows == { [start |-> Time(6, 0), end |-> Time(18, 0)],
                   [start |-> Time(22, 0), end |-> Time(2, 0)] }

\* forecasts of the sampler specification: every structure of the series
\* list, timestamps in any order with a repeated hour (6 and 30 are 06:00 of
\* two consecutive days), the target's pops present or not, the precipitation
\* series absent or present under either field name
SamplerStamps == {6, 18, 30}
IndexedValues(n, step) == [i \in 1..n |-> Num(step * i)]

SampledForecasts ==
  UNION { UNION { { Forecast(C130000, <<WeatherSeries, PopSeries(times, targetPops)>>) }
                  \cup
                  { Forecast(C130000, <<WeatherSeries, PopSeries(times, targetPops),
                                        PrecipSeries(times, key, IndexedValues(Len(times), 5))>>)
                    : key \in {"precipitation", "precipitations"} }
                  : targetPops \in {<<>>, <<IndexedValues(Len(times), 100)>>} }
          : times \in UNION { [1..n -> SamplerStamps] : n \in 0..MaxLen } }

SamplerForecasts == SampledForecasts \cup NoSampleForecasts

SamplerTimes ==
  { Time(0, 0), Time(0, 1), Time(2, 0), Time(6, 0), Time(9, 0), Time(12, 30),
    Time(17, 59), Time(18, 0), Time(22, 0), Time(23, 59) }

SamplerWindows == [start : SamplerTimes, end : SamplerTimes]

\* ------------------------------------------------------------------------
\* Weather pipeline: state and actions
\* ------------------------------------------------------------------------
IdleCombined ==
  /\ originResult = <<>>
  /\ destinationResult = <<>>
  /\ combinedResult = <<>>

IdleSchedule ==
  /\ settings = [weeklySchedule |-> <<>>]
  /\ now = [day |-> 0]
  /\ scheduleResult = <<>>

\* no cached payload, no call of the cache or of the fetcher yet
IdleCache ==
  /\ cache = <<>>
  /\ dateNow = 0
  /\ fetchCall = <<>>
  /\ loadCall = <<>>

\* no fetch cycle of the home screen
IdleCycle ==
  /\ cycles = <<>>
  /\ screen = <<>>
  /\ triggers = 0

\* no edit on the settings screen
IdleEdit ==
  /\ edits = 0
  /\ removal = <<>>

\* nothing in the settings item of AsyncStorage, no storage operation yet
IdleStorage ==
  /\ asyncStorage = <<>>
  /\ lastOp = <<>>

\* no scheduled notification, no synchronisation and no reminder in flight
IdleNotification ==
  /\ scheduled = <<>>
  /\ notificationPermission = FALSE
  /\ syncs = <<>>
  /\ reminder = <<>>

Init ==
  /\ forecast \in DecideForecasts
  /\ outingTime \in DecideWindows
  /\ criteria \in DecideCriteria
  /\ hourlyForecasts = <<>>
  /\ umbrellaResult = <<>>
  /\ IdleCombined
  /\ IdleSchedule
  /\ IdleCache
  /\ IdleCycle
  /\ IdleEdit
  /\ IdleStorage
  /\ IdleNotification

\* a caller runs the sampler on the current forecast and window
ExtractHourly ==
  /\ hourlyForecasts' = <<extractHourlyForecasts(forecast, outingTime)>>
  /\ UNCHANGED <<forecast, outingTime, criteria, umbrellaResult>>
  /\ UNCHANGED <<combinedVars, scheduleVars, cacheVars, cycleVars, editVars, storageVars, notificationVars>>

\* a caller runs the decision engine on the current forecast, window and criteria
DetermineUmbrella ==
  /\ umbrellaResult' = <<determineUmbrella(forecast, outingTime, criteria)>>
  /\ UNCHANGED <<forecast, outingTime, criteria, hourlyForecasts>>
  /\ UNCHANGED <<combinedVars, scheduleVars, cacheVars, cycleVars, editVars, storageVars, notificationVars>>

Next == ExtractHourly \/ DetermineUmbrella

Spec == Init /\ [][Next]_vars

InitSampler ==
  /\ forecast \in SamplerForecasts
  /\ outingTime \in SamplerWindows
  /\ criteria = DEFAULT_CRITERIA
  /\ hourlyForecasts = <<>>
  /\ umbrellaResult = <<>>
  /\ IdleCombined
  /\ IdleSchedule
  /\ IdleCache
  /\ IdleCycle
  /\ IdleEdit
  /\ IdleStorage
  /\ IdleNotification

SpecSampler == InitSampler /\ [][Next]_vars

\* ------------------------------------------------------------------------
\* Properties of the decision engine (specification Spec)
\* ------------------------------------------------------------------------
\* largest element of a set of numbers, 0 for the empty set
MaxOf(S) == IF S = {} THEN 0 ELSE CHOOSE m \in S : \A x \in S : m >= x

PopsOf(samples) == { samples[i].pop : i \in 1..Len(samples) }
PrecipsOf(samples) == { samples[i].precipitation : i \in 1..Len(samples) }

\* the required rule of the criteria on the two maxima
RequiredRule(crit, maxPop, maxPrecipitation) ==
  \/ /\ crit.logic = "or"
     /\ (maxPop >= crit.popThreshold \/ maxPrecipitation >= crit.precipitationThreshold)
  \/ /\ crit.logic = "and"
     /\ maxPop >= crit.popThreshold
     /\ maxPrecipitation >= crit.precipitationThreshold

Decided == umbrellaResult # <<>>
TheResult == umbrellaResult[1]
ResultMaxPop == MaxOf(PopsOf(TheResult.hourlyForecasts))
ResultMaxPrecip == MaxOf(PrecipsOf(TheResult.hourlyForecasts))

C2_RecommendedBand ==
  (Decided /\ ~RequiredRule(criteria, ResultMaxPop, ResultMaxPrecip)) =>
    /\ (TheResult.decision = "recommended")
         <=> (10 * ResultMaxPop >= 6 * criteria.popThreshold)
    /\ (TheResult.decision = "not_required")
         <=> (10 * ResultMaxPop < 6 * criteria.popThreshold)

\* maxPop exactly 0.6 * popThreshold (30 % against 50 %), rule not met
C2_Witness ==
  /\ Decided
  /\ criteria.popThreshold = 500
  /\ ResultMaxPop = 300
  /\ ~RequiredRule(criteria, ResultMaxPop, ResultMaxPrecip)
  /\ TheResult.decision = "recommended"

\* C3 (as claimed): without samples maxPop is 0 and the decision is
\* 'not_required' for every criteria setting.
C3_NoSamplesNotRequired ==
  (Decided /\ Len(TheResult.hourlyForecasts) = 0) =>
    /\ TheResult.maxPop = 0
    /\ TheResult.decision = "not_required"

\* ------------------------------------------------------------------------
\* Properties of the sampler (specification SpecSampler)
\* ------------------------------------------------------------------------
Sampled == hourlyForecasts # <<>>
TheSamples == hourlyForecasts[1]
StartMinutes == outingTime.start.hour * 60 + outingTime.start.minute
EndMinutes == outingTime.end.hour * 60 + outingTime.end.minute

\* minutes since midnight of a sample's "HH:MM" label
LabelMinutes(sample) == sample.time.hour * 60 + sample.time.minute

\* C4 (as claimed): a window with start = end is sampled as the full day, its
\* duration is 1440 minutes and the 4 time points are not all equal to start.
C4_EqualWindowIsFullDay ==
  (Sampled /\ Len(TheSamples) = 4 /\ StartMinutes = EndMinutes) =>
    /\ Duration(StartMinutes, EndMinutes) = 1440
    /\ \E i \in 1..4 : LabelMinutes(TheSamples[i]) # StartMinutes

\* the window length the sampler is to use
WindowLength ==
  IF EndMinutes < StartMinutes THEN (1440 - StartMinutes) + EndMinutes
  ELSE EndMinutes - StartMinutes

\* round-half-up of length * k / 3
Rounded(length, k) == CHOOSE r \in 0..length : 6 * r - 3 <= 2 * k * length /\ 2 * k * length < 6 * r + 3

\* C5: for end < start the duration is (1440 - start) + end; the 4 sampled
\* time points are start + round(duration * k/3) wrapped past midnight, lie in
\* 0..1439, the first is start and the last is end.
C5_TimePointsValid ==
  (Sampled /\ Len(TheSamples) = 4) =>
    /\ Duration(StartMinutes, EndMinutes) = WindowLength
    /\ \A i \in 1..4 :
         /\ LabelMinutes(TheSamples[i]) \in 0..1439
         /\ TheSamples[i].time.hour \in 0..23
         /\ TheSamples[i].time.minute \in 0..59
         /\ LabelMinutes(TheSamples[i])
              = (StartMinutes + Rounded(WindowLength, i - 1)) % 1440
    /\ LabelMinutes(TheSamples[1]) = StartMinutes
    /\ LabelMinutes(TheSamples[4]) = EndMinutes

\* 22:00-02:00 sampled at 22:00, 23:20, 00:40, 02:00
C5_Witness ==
  /\ Sampled
  /\ outingTime = [start |-> Time(22, 0), end |-> Time(2, 0)]
  /\ Duration(StartMinutes, EndMinutes) = 240
  /\ Len(TheSamples) = 4
  /\ [i \in 1..4 |-> TheSamples[i].time] = <<Time(22, 0), Time(23, 20), Time(0, 40), Time(2, 0)>>

\* some area of some series carries an array under `key`
Carries(fc, key) ==
  \E i \in 1..Len(fc.timeSeries) :
    \E j \in 1..Len(fc.timeSeries[i].areas) : fc.timeSeries[i].areas[j][key] # <<>>

\* the target area has no probability array in any series
TargetWithoutPops(fc) ==
  \A i \in 1..Len(fc.timeSeries) :
    \A j \in 1..Len(fc.timeSeries[i].areas) :
      fc.timeSeries[i].areas[j].area.code = C130010
        => fc.timeSeries[i].areas[j].pops = <<>>

\* C6: the sampler returns no sample or exactly 4; none exactly when no series
\* carries rain probability or none carries weather code/text; otherwise the 4
\* samples are in the order start, 1/3, 2/3, end, with precipitation 0 when
\* the precipitation series is missing and probability 0 when the selected
\* area has no probability values.
C6_EmptyOrFour ==
  Sampled =>
    /\ Len(TheSamples) \in {0, 4}
    /\ (Len(TheSamples) = 0)
         <=> (~Carries(forecast, "pops")
              \/ ~(Carries(forecast, "weatherCodes") \/ Carries(forecast, "weathers")))
    /\ Len(TheSamples) = 4 =>
         /\ \A i \in 1..4 :
              LabelMinutes(TheSamples[i])
                = (StartMinutes + Rounded(WindowLength, i - 1)) % 1440
         /\ (~Carries(forecast, "precipitation") /\ ~Carries(forecast, "precipitations"))
              => \A i \in 1..4 : TheSamples[i].precipitation = 0
         /\ TargetWithoutPops(forecast) => \A i \in 1..4 : TheSamples[i].pop = 0

\* 4 samples although the target has no pops and there is no precipitation series
C6_Witness ==
  /\ Sampled
  /\ Len(TheSamples) = 4
  /\ Carries(forecast, "pops")
  /\ TargetWithoutPops(forecast)
  /\ ~Carries(forecast, "precipitation")
  /\ ~Carries(forecast, "precipitations")
  /\ \A i \in 1..4 : TheSamples[i].pop = 0 /\ TheSamples[i].precipitation = 0
  /\ StartMinutes < EndMinutes

\* ------------------------------------------------------------------------
\* determineCombinedUmbrella
\* ------------------------------------------------------------------------
\* decisions.includes(d) looking at the origin only
Includes_FirstOnly(decisions, d) == decisions[1] = d

\* decisions.includes(d)
Includes(decisions, d) == \E i \in 1..Len(decisions) : decisions[i] = d

\* neither result
NoLocation ==
  [overallDecision |-> "not_required",
   overallMessage |-> <<"please_set_a_location">>,
   origin |-> <<>>,
   destination |-> <<>>]

\* the destination also stored as the origin
OnlyDestination_AlsoOrigin(dest) ==
  [overallDecision |-> dest[1].result.decision,
   overallMessage |-> dest[1].result.message,
   origin |-> dest,
   destination |-> dest]

\* destination only
OnlyDestination(dest) ==
  [overallDecision |-> dest[1].result.decision,
   overallMessage |-> dest[1].result.message,
   origin |-> <<>>,
   destination |-> dest]

\* origin only
OnlyOrigin(orig) ==
  [overallDecision |-> orig[1].result.decision,
   overallMessage |-> orig[1].result.message,
   origin |-> orig,
   destination |-> <<>>]

\* the origin named whenever the two decisions differ
LocationMessage_AlwaysOrigin(orig, dest, decision, bothText, oneText) ==
  IF orig[1].result.decision = decision /\ dest[1].result.decision = decision
  THEN <<bothText>>
  ELSE <<oneText, orig[1].location.name>>

\* message of the both-present case for the overall decision `decision`:
\* bothText when both locations have it, else oneText with the name of the
\* location that has it
LocationMessage(orig, dest, decision, bothText, oneText) ==
  LET isOrigin == orig[1].result.decision = decision
      isDest == dest[1].result.decision = decision
  IN IF isOrigin /\ isDest THEN <<bothText>>
     ELSE IF isOrigin THEN <<oneText, orig[1].location.name>>
     ELSE <<oneText, dest[1].location.name>>

\* both results: the stricter decision
Both(orig, dest) ==
  LET decisions == <<orig[1].result.decision, dest[1].result.decision>>
  IN IF Includes(decisions, "required")
     THEN [overallDecision |-> "required",
           overallMessage |-> LocationMessage(orig, dest, "required",
                                "umbrella_needed_at_both", "umbrella_needed_at"),
           origin |-> orig, destination |-> dest]
     ELSE IF Includes(decisions, "recommended")
     THEN [overallDecision |-> "recommended",
           overallMessage |-> LocationMessage(orig, dest, "recommended",
                                "folding_umbrella_just_in_case", "umbrella_just_in_case_at"),
           origin |-> orig, destination |-> dest]
     ELSE [overallDecision |-> "not_required",
           overallMessage |-> <<"no_umbrella_needed">>,
           origin |-> orig, destination |-> dest]

determineCombinedUmbrella(orig, dest) ==
  IF orig = <<>> /\ dest = <<>> THEN NoLocation
  ELSE IF orig = <<>> /\ dest # <<>> THEN OnlyDestination(dest)
  ELSE IF orig # <<>> /\ dest = <<>> THEN OnlyOrigin(orig)
  ELSE Both(orig, dest)

\* ------------------------------------------------------------------------
\* Combined reducer: inputs, state and action
\* ------------------------------------------------------------------------
Location(id, name, areaCode, isGPS) ==
  [id |-> id, name |-> name, areaCode |-> areaCode, isGPS |-> isGPS]

OriginLocations == { Location("gps", "Current", C130000, TRUE),
                     Location("loc1", "Home", C130000, FALSE) }
DestinationLocations == { Location("loc2", "Office", C270000, FALSE),
                          Location("loc3", "Home", C140000, FALSE) }

\* results the decision engine produces for a day's window
CombinedForecasts ==
  { Forecast(C130000, <<WeatherSeries, PopSeries(Stamps(1), <<<<v>>>>)>>) : v \in PopTokens }
  \cup
  { Forecast(C130000, <<WeatherSeries, PopSeries(Stamps(1), <<<<Num(0)>>>>),
                        PrecipSeries(Stamps(1), "precipitation", <<Num(10)>>)>>),
    Forecast(C130000, <<WeatherSeries, TempSeries>>) }

CombinedInputResults ==
  { determineUmbrella(f, [start |-> Time(9, 0), end |-> Time(18, 0)], DEFAULT_CRITERIA)
    : f \in CombinedForecasts }

LocationResults(locations) ==
  { [location |-> l, result |-> r] : l \in locations, r \in CombinedInputResults }

IdleWeather ==
  /\ forecast = Forecast(C130000, <<WeatherSeries>>)
  /\ outingTime = [start |-> Time(9, 0), end |-> Time(18, 0)]
  /\ criteria = DEFAULT_CRITERIA
  /\ hourlyForecasts = <<>>
  /\ umbrellaResult = <<>>

InitCombined ==
  /\ originResult \in {<<>>} \cup { <<r>> : r \in LocationResults(OriginLocations) }
  /\ destinationResult \in {<<>>} \cup { <<r>> : r \in LocationResults(DestinationLocations) }
  /\ combinedResult = <<>>
  /\ IdleWeather
  /\ IdleSchedule
  /\ IdleCache
  /\ IdleCycle
  /\ IdleEdit
  /\ IdleStorage
  /\ IdleNotification

\* a caller merges the current origin and destination results
DetermineCombined ==
  /\ combinedResult' = <<determineCombinedUmbrella(originResult, destinationResult)>>
  /\ UNCHANGED <<originResult, destinationResult>>
  /\ UNCHANGED <<weatherVars, scheduleVars, cacheVars, cycleVars, editVars, storageVars, notificationVars>>

NextCombined == DetermineCombined

SpecCombined == InitCombined /\ [][NextCombined]_vars

\* ------------------------------------------------------------------------
\* Properties of the combined reducer (specification SpecCombined)
\* ------------------------------------------------------------------------
Merged == combinedResult # <<>>
TheCombined == combinedResult[1]
BothGiven == originResult # <<>> /\ destinationResult # <<>>
OriginDecision == originResult[1].result.decision
DestinationDecision == destinationResult[1].result.decision

\* required > recommended > not_required
Rank(decision) ==
  CASE decision = "required" -> 2
    [] decision = "recommended" -> 1
    [] decision = "not_required" -> 0

\* C7: with both results the overall decision is the worse of the two under
\* required > recommended > not_required, never less severe than either, and
\* decision and message are the same with origin and destination swapped.
C7_WorstOfTwo ==
  (Merged /\ BothGiven) =>
    /\ Rank(TheCombined.overallDecision)
         = (IF Rank(OriginDecision) >= Rank(DestinationDecision)
            THEN Rank(OriginDecision) ELSE Rank(DestinationDecision))
    /\ Rank(TheCombined.overallDecision) >= Rank(OriginDecision)
    /\ Rank(TheCombined.overallDecision) >= Rank(DestinationDecision)
    /\ LET swapped == determineCombinedUmbrella(destinationResult, originResult)
       IN /\ swapped.overallDecision = TheCombined.overallDecision
          /\ swapped.overallMessage = TheCombined.overallMessage

\* origin not_required, destination required
C7_Witness ==
  /\ Merged
  /\ BothGiven
  /\ OriginDecision = "not_required"
  /\ DestinationDecision = "required"
  /\ TheCombined.overallDecision = "required"

\* C8: with exactly one result the combined result has that result's decision
\* and message and carries only it; with none it is 'not_required' with the
\* set-a-location message and carries nothing.
C8_OneOrNone ==
  Merged =>
    /\ (originResult # <<>> /\ destinationResult = <<>>) =>
         /\ TheCombined.overallDecision = originResult[1].result.decision
         /\ TheCombined.overallMessage = originResult[1].result.message
         /\ TheCombined.origin = originResult
         /\ TheCombined.destination = <<>>
    /\ (originResult = <<>> /\ destinationResult # <<>>) =>
         /\ TheCombined.overallDecision = destinationResult[1].result.decision
         /\ TheCombined.overallMessage = destinationResult[1].result.message
         /\ TheCombined.origin = <<>>
         /\ TheCombined.destination = destinationResult
    /\ (originResult = <<>> /\ destinationResult = <<>>) =>
         /\ TheCombined.overallDecision = "not_required"
         /\ TheCombined.overallMessage = <<"please_set_a_location">>
         /\ TheCombined.origin = <<>>
         /\ TheCombined.destination = <<>>

\* a destination alone, its decision 'required'
C8_Witness ==
  /\ Merged
  /\ originResult = <<>>
  /\ destinationResult # <<>>
  /\ DestinationDecision = "required"
  /\ TheCombined.overallDecision = "required"
  /\ TheCombined.destination = destinationResult

\* C9: with both results and overall 'required' the message is the
\* both-locations message when both are 'required', else it names the one
\* 'required' location; with no 'required' and exactly one 'recommended' it
\* names that location.
C9_MessageNamesLocation ==
  (Merged /\ BothGiven) =>
    LET origName == originResult[1].location.name
        destName == destinationResult[1].location.name
    IN /\ (OriginDecision = "required" /\ DestinationDecision = "required")
            => TheCombined.overallMessage = <<"umbrella_needed_at_both">>
       /\ (OriginDecision = "required" /\ DestinationDecision # "required")
            => TheCombined.overallMessage = <<"umbrella_needed_at", origName>>
       /\ (OriginDecision # "required" /\ DestinationDecision = "required")
            => TheCombined.overallMessage = <<"umbrella_needed_at", destName>>
       /\ (OriginDecision = "recommended" /\ DestinationDecision = "not_required")
            => TheCombined.overallMessage = <<"umbrella_just_in_case_at", origName>>
       /\ (OriginDecision = "not_required" /\ DestinationDecision = "recommended")
            => TheCombined.overallMessage = <<"umbrella_just_in_case_at", destName>>

\* origin not_required, destination required, differently named
C9_Witness ==
  /\ Merged
  /\ BothGiven
  /\ OriginDecision = "not_required"
  /\ DestinationDecision = "required"
  /\ originResult[1].location.name # destinationResult[1].location.name
  /\ TheCombined.overallMessage = <<"umbrella_needed_at", destinationResult[1].location.name>>

\* ------------------------------------------------------------------------
\* storageService: the weekly schedule resolver
\* ------------------------------------------------------------------------
DaySchedule(enabled, originLocationId, destinationLocationId, outingStart, outingEnd) ==
  [enabled |-> enabled, originLocationId |-> originLocationId,
   destinationLocationId |-> destinationLocationId,
   outingStart |-> outingStart, outingEnd |-> outingEnd]

\* settings.weeklySchedule?.[dayOfWeek]
ScheduleOf(s, dayOfWeek) ==
  IF s.weeklySchedule = <<>> THEN <<>>
  ELSE IF dayOfWeek \in DOMAIN s.weeklySchedule[1] THEN s.weeklySchedule[1][dayOfWeek]
  ELSE <<>>

getDaySchedule(s, dayOfWeek) ==
  LET schedule == ScheduleOf(s, dayOfWeek)
  IN IF schedule = <<>> \/ ~schedule[1].enabled THEN <<>> ELSE schedule

\* new Date().getDay()
getDay(clock) == clock.day

\* the modulo forgotten
TomorrowOf_NoWrap(today) == today + 1

\* (today + 1) % 7
TomorrowOf(today) == (today + 1) % 7

getTodaySchedule(s, clock) == getDaySchedule(s, getDay(clock))

getTomorrowSchedule(s, clock) == getDaySchedule(s, TomorrowOf(getDay(clock)))

\* ------------------------------------------------------------------------
\* Schedule resolver: inputs, state and actions
\* ------------------------------------------------------------------------
Days == 0..6

\* the stored entry of weekday d: missing, or a schedule whose references and
\* times are particular to the day
StoredDay(d, enabled) ==
  DaySchedule(enabled,
              IF d % 2 = 0 THEN <<"loc1">> ELSE <<>>,
              IF d % 3 = 0 THEN <<"loc2">> ELSE <<>>,
              Time(6 + d, 30), Time(17 + d, 0))

\* the entry of weekday d: missing, stored disabled, stored enabled
DayEntry(d, kind) ==
  IF kind = "missing" THEN <<>>
  ELSE IF kind = "disabled" THEN <<StoredDay(d, FALSE)>>
  ELSE <<StoredDay(d, TRUE)>>

WeeklySchedules ==
  { [d \in Days |-> DayEntry(d, kinds[d])]
    : kinds \in [Days -> {"missing", "disabled", "enabled"}] }

InitSchedule ==
  /\ settings \in { [weeklySchedule |-> <<>>] }
                  \cup { [weeklySchedule |-> <<w>>] : w \in WeeklySchedules }
  /\ now \in [day : Days]
  /\ scheduleResult = <<>>
  /\ IdleWeather
  /\ IdleCombined
  /\ IdleCache
  /\ IdleCycle
  /\ IdleEdit
  /\ IdleStorage
  /\ IdleNotification

Returned(fn, dayOfWeek, value) == <<[fn |-> fn, dayOfWeek |-> dayOfWeek, value |-> value]>>

GetTodaySchedule ==
  /\ scheduleResult' = Returned("getTodaySchedule", 0, getTodaySchedule(settings, now))
  /\ UNCHANGED <<settings, now>>
  /\ UNCHANGED <<weatherVars, combinedVars, cacheVars, cycleVars, editVars, storageVars, notificationVars>>

GetTomorrowSchedule ==
  /\ scheduleResult' = Returned("getTomorrowSchedule", 0, getTomorrowSchedule(settings, now))
  /\ UNCHANGED <<settings, now>>
  /\ UNCHANGED <<weatherVars, combinedVars, cacheVars, cycleVars, editVars, storageVars, notificationVars>>

GetDaySchedule(dayOfWeek) ==
  /\ scheduleResult' = Returned("getDaySchedule", dayOfWeek, getDaySchedule(settings, dayOfWeek))
  /\ UNCHANGED <<settings, now>>
  /\ UNCHANGED <<weatherVars, combinedVars, cacheVars, cycleVars, editVars, storageVars, notificationVars>>

NextSchedule ==
  \/ GetTodaySchedule
  \/ GetTomorrowSchedule
  \/ \E dayOfWeek \in Days : GetDaySchedule(dayOfWeek)

SpecSchedule == InitSchedule /\ [][NextSchedule]_vars

\* ------------------------------------------------------------------------
\* Properties of the schedule resolver (specification SpecSchedule)
\* ------------------------------------------------------------------------
Resolved == scheduleResult # <<>>
TheCall == scheduleResult[1]

\* the weekday a call is about
CalledDay ==
  IF TheCall.fn = "getTodaySchedule" THEN now.day
  ELSE IF TheCall.fn = "getTomorrowSchedule"
       THEN (IF now.day = 6 THEN 0 ELSE now.day + 1)
       ELSE TheCall.dayOfWeek

\* the stored entry of a weekday, <<>> when the day or the whole schedule is missing
StoredEntry(d) ==
  IF settings.weeklySchedule = <<>> THEN <<>> ELSE settings.weeklySchedule[1][d]

\* C10: a schedule lookup returns null exactly when the day's entry is
\* disabled or missing, whatever its references and times, and otherwise the
\* stored entry unchanged; today is the weekday of now and tomorrow is
\* (today + 1) mod 7, Sunday after Saturday.
C10_EnabledOrNull ==
  Resolved =>
    /\ (TheCall.value = <<>>)
         <=> (StoredEntry(CalledDay) = <<>> \/ ~StoredEntry(CalledDay)[1].enabled)
    /\ TheCall.value # <<>> => TheCall.value = StoredEntry(CalledDay)

\* on Saturday, tomorrow's lookup returns the enabled Sunday entry although
\* Saturday's and Monday's entries are disabled
C10_Witness ==
  /\ Resolved
  /\ TheCall.fn = "getTomorrowSchedule"
  /\ now.day = 6
  /\ TheCall.value = <<StoredDay(0, TRUE)>>
  /\ StoredEntry(6) = <<StoredDay(6, FALSE)>>
  /\ StoredEntry(1) = <<StoredDay(1, FALSE)>>

\* ------------------------------------------------------------------------
\* Forecast payloads, the payload cache and the fetcher
\*
\* A JSON value that should be a forecast response is the record
\* [array, items]: array is Array.isArray(value) and items its elements.
\* An item keeps publishingOffice and reportDatetime as optionals (<<>> when
\* the key is missing or not a string) and timeSeries as a sequence (empty
\* when the key is missing, not an array or an empty array).  JsonNull is a
\* null inside an array of strings.  The time unit of Date.now() is the
\* minute.  An error message is the sequence of its words.
\* ------------------------------------------------------------------------
\* latest reading of the clock (minutes)
MaxClock == 20

WEATHER_CACHE_TTL == 15

JsonNull == [t |-> "null", v |-> 0]

\* Array.isArray(value) && value.every(item => typeof item === 'string')
isStringArray(value) == \A i \in 1..Len(value) : value[i] # JsonNull

\* the optional fields of an area whose elements this model keeps as tokens
TokenKeys == <<"pops", "temps", "tempsMin", "tempsMax", "precipitation", "precipitations">>

isAreaForecast(value) ==
  \A k \in 1..Len(TokenKeys) :
    value[TokenKeys[k]] = <<>> \/ isStringArray(value[TokenKeys[k]][1])

\* the type guard of a forecast response: the shallow test only
isJmaForecastResponse_Shallow(value) == value.array /\ Len(value.items) > 0
\* the type guard of a forecast response
isJmaForecastResponse(value) ==
  /\ value.array
  /\ Len(value.items) > 0
  /\ \A i \in 1..Len(value.items) :
       LET item == value.items[i]
       IN /\ item.publishingOffice # <<>>
          /\ item.reportDatetime # <<>>
          /\ Len(item.timeSeries) > 0
          /\ \A j \in 1..Len(item.timeSeries) :
               LET series == item.timeSeries[j]
               IN /\ Len(series.areas) > 0
                  /\ \A a \in 1..Len(series.areas) : isAreaForecast(series.areas[a])

\* the forecast of the first item for the requested office, <<>> for null
parseWeatherData(data, areaCode) ==
  IF ~data.array \/ Len(data.items) = 0 THEN <<>>
  ELSE LET fc == data.items[1]
       IN IF Len(fc.timeSeries) = 0 THEN <<>>
          ELSE LET weatherSeries ==
                     OrElse(findTimeSeriesByKeys(fc.timeSeries, <<"weatherCodes", "weathers">>),
                            fc.timeSeries[1])
               IN IF Len(weatherSeries.areas) = 0 THEN <<>>
                  ELSE LET weatherArea == pickAreaByCode(weatherSeries.areas, areaCode)
                       IN IF weatherArea = <<>> THEN <<>>
                          ELSE <<[areaCode |-> areaCode,
                                  areaName |-> weatherArea[1].area.name,
                                  publishingOffice |-> fc.publishingOffice[1],
                                  reportDatetime |-> fc.reportDatetime[1],
                                  timeSeries |-> fc.timeSeries]>>

\* the stored string of one cache key: JSON.stringify({data, timestamp, areaCode})
CacheEntry(data, timestamp, areaCode) ==
  [parses |-> TRUE, data |-> data, timestamp |-> timestamp, areaCode |-> areaCode]

\* the storage after saveWeatherCache(areaCode, data) at time t
saveWeatherCache(store, areaCode, data, t) ==
  MapSet(store, areaCode, CacheEntry(data, t, areaCode))

\* an entry of that age is no longer served: expiry one tick late
Expired_After(age) == age > WEATHER_CACHE_TTL
\* an entry of that age is no longer served
Expired(age) == age >= WEATHER_CACHE_TTL

\* the payload loadWeatherCache(areaCode) resolves to at time t, <<>> for null
loadWeatherCache(store, areaCode, t) ==
  LET json == MapGet(store, areaCode)
  IN IF json = <<>> THEN <<>>
     ELSE IF ~json[1].parses THEN <<>>
     ELSE IF Expired(t - json[1].timestamp) THEN <<>>
     ELSE IF ~isJmaForecastResponse(json[1].data) THEN <<>>
     ELSE <<json[1].data>>

\* String.prototype.toLowerCase, word by word
toLowerCaseWord(w) ==
  CASE w = "Network" -> "network"
    [] w = "Failed" -> "failed"
    [] w = "Request" -> "request"
    [] w = "Timeout" -> "timeout"
    [] w = "Fetch" -> "fetch"
    [] OTHER -> w

toLowerCase(message) == [i \in 1..Len(message) |-> toLowerCaseWord(message[i])]

\* String.prototype.includes for a phrase of whole words
includes(message, phrase) ==
  \E i \in 1..(Len(message) - Len(phrase) + 1) :
    SubSeq(message, i, i + Len(phrase) - 1) = phrase

\* a thrown value: kind is "Error" (instanceof Error), "AppError" (an object
\* with string type and message) or "other"
Thrown(kind, message) == [kind |-> kind, type |-> "", message |-> message]

buildAppError(type, message) == [kind |-> "AppError", type |-> type, message |-> message]

isAppError(value) == value.kind = "AppError"

\* the offline test without the 'timeout' keyword
isOfflineError_NoTimeout(error) ==
  IF error.kind # "Error" THEN FALSE
  ELSE LET message == toLowerCase(error.message)
       IN \/ includes(message, <<"network">>)
          \/ includes(message, <<"failed", "to", "fetch">>)
          \/ includes(message, <<"request", "failed">>)
\* the offline test: guessed from the message of an Error
isOfflineError(error) ==
  IF error.kind # "Error" THEN FALSE
  ELSE LET message == toLowerCase(error.message)
       IN \/ includes(message, <<"network">>)
          \/ includes(message, <<"failed", "to", "fetch">>)
          \/ includes(message, <<"request", "failed">>)
          \/ includes(message, <<"timeout">>)

\* the catch block of fetchWeatherForecast: the error it throws for `error`
Rethrown(error) ==
  IF isAppError(error) THEN error
  ELSE IF isOfflineError(error) THEN buildAppError("offline", <<"offline">>)
  ELSE buildAppError("api", <<"fetch_failed">>)

\* the cached branch never taken
CacheHit_Never(cached, areaCode) == <<>>
\* the forecast returned from the cache, <<>> when the fetcher goes on to the network
CacheHit(cached, areaCode) ==
  IF cached = <<>> THEN <<>> ELSE parseWeatherData(cached[1], areaCode)

\* what one call of the fetcher did: the forecast it resolved to or the error
\* it threw, the storage it left, and its storage and network operations in order
Outcome(value, error, store, log) ==
  [value |-> value, error |-> error, cache |-> store, log |-> log]

Failed(error, store, log) == Outcome(<<>>, <<Rethrown(error)>>, store, log)

\* the part of fetchWeatherForecast(areaCode) after a cache miss, at time t
\* over the storage `store`, with the network behaving as `net`
fetchFromNetwork(areaCode, store, t, net) ==
  LET requested == <<"cacheRead", "network">>
  IN IF net.kind = "throw" THEN Failed(net.thrown, store, requested)
     ELSE IF ~net.ok THEN Failed(buildAppError("api", <<"http_status">>), store, requested)
     ELSE IF net.kind = "badjson" THEN Failed(net.thrown, store, requested)
     ELSE IF ~isJmaForecastResponse(net.body)
          THEN Failed(buildAppError("api", <<"unexpected_format">>), store, requested)
     ELSE LET saved == saveWeatherCache(store, areaCode, net.body, t)
              parsed == parseWeatherData(net.body, areaCode)
              written == Append(requested, "cacheWrite")
          IN IF parsed = <<>>
             THEN Failed(buildAppError("api", <<"parse_failed">>), saved, written)
             ELSE Outcome(parsed, <<>>, saved, written)

\* fetchWeatherForecast(areaCode) at time t over the storage `store`, with
\* the network behaving as `net`
fetchWeatherForecast(areaCode, store, t, net) ==
  LET cachedForecast == CacheHit(loadWeatherCache(store, areaCode, t), areaCode)
  IN IF cachedForecast # <<>> THEN Outcome(cachedForecast, <<>>, store, <<"cacheRead">>)
     ELSE fetchFromNetwork(areaCode, store, t, net)

\* ------------------------------------------------------------------------
\* Inputs of the cache and the fetcher
\* ------------------------------------------------------------------------
Item(series) ==
  [publishingOffice |-> <<"JMA">>, reportDatetime |-> <<5>>, timeSeries |-> series]

Payload(items) == [array |-> TRUE, items |-> items]

\* a response with the given rain probability for the target area, followed
\* by the weekly item
PopPayload(pop) ==
  Payload(<<Item(<<WeatherSeries, PopSeries(Stamps(1), <<<<pop>>>>)>>), Item(<<TempSeries>>)>>)

RainyPayload == PopPayload(Num(600))
DryPayload == PopPayload(Num(0))

ValidPayloads == {RainyPayload, DryPayload}

\* a JSON object that is not an array
NotAnArray == [array |-> FALSE, items |-> <<>>]

\* a first item that parses, a second item without time series
BrokenSecondItem == Payload(<<Item(<<WeatherSeries>>), Item(<<>>)>>)

InvalidPayloads ==
  { NotAnArray,
    Payload(<<>>),
    Payload(<<[Item(<<WeatherSeries>>) EXCEPT !.publishingOffice = <<>>]>>),
    Payload(<<[Item(<<WeatherSeries>>) EXCEPT !.reportDatetime = <<>>]>>),
    Payload(<<Item(<<[timeDefines |-> <<>>, areas |-> <<>>]>>)>>),
    Payload(<<Item(<<WeatherSeries, PopSeries(Stamps(1), <<<<JsonNull>>>>)>>)>>),
    BrokenSecondItem }

\* a stored string that JSON.parse rejects
Garbled == [parses |-> FALSE, data |-> NotAnArray, timestamp |-> 0, areaCode |-> <<>>]

ErrorMessages ==
  { <<"Network", "request", "failed">>,
    <<"TypeError:", "Failed", "to", "fetch">>,
    <<"Request", "failed">>,
    <<"Timeout", "exceeded">>,
    <<"Failed", "to", "connect">>,
    <<"Aborted">>,
    <<"JSON", "Parse", "error">> }

ThrownValues ==
  { Thrown("Error", m) : m \in ErrorMessages } \cup { Thrown("other", <<"Network">>) }

Throws(e) == [kind |-> "throw", ok |-> FALSE, thrown |-> e, body |-> NotAnArray]
Responds(ok, body) ==
  [kind |-> "response", ok |-> ok, thrown |-> Thrown("other", <<>>), body |-> body]
BadJson(e) == [kind |-> "badjson", ok |-> TRUE, thrown |-> e, body |-> NotAnArray]

NetBehaviours ==
  { Throws(e) : e \in ThrownValues }
  \cup { Responds(TRUE, b) : b \in ValidPayloads \cup InvalidPayloads }
  \cup { Responds(FALSE, NotAnArray), BadJson(Thrown("Error", <<"JSON", "Parse", "error">>)) }

CacheCodes == {C130000, C270000}

\* storage left by an earlier run: nothing, or one entry written at time 0
\* that is unreadable or holds a payload the type guard rejects
InitialCaches ==
  { <<>>, <<<<C130000, Garbled>>>> }
  \cup { <<<<C130000, CacheEntry(b, 0, C130000)>>>> : b \in {NotAnArray, BrokenSecondItem} }

\* ------------------------------------------------------------------------
\* Cache and fetcher: state and actions (specification SpecCache)
\* ------------------------------------------------------------------------
InitCache ==
  /\ cache \in InitialCaches
  /\ dateNow = 0
  /\ fetchCall = <<>>
  /\ loadCall = <<>>
  /\ IdleWeather
  /\ IdleCombined
  /\ IdleSchedule
  /\ IdleCycle
  /\ IdleEdit
  /\ IdleStorage
  /\ IdleNotification

\* time passes
Tick(d) ==
  /\ dateNow + d <= MaxClock
  /\ dateNow' = dateNow + d
  /\ UNCHANGED <<cache, fetchCall, loadCall>>
  /\ UNCHANGED <<weatherVars, combinedVars, scheduleVars, cycleVars, editVars, storageVars, notificationVars>>

\* a caller fetches the forecast of an office; fetchCall keeps the call
FetchWeatherForecast(areaCode, net) ==
  LET outcome == fetchWeatherForecast(areaCode, cache, dateNow, net)
  IN /\ cache' = outcome.cache
     /\ fetchCall' = <<[areaCode |-> areaCode, at |-> dateNow, before |-> cache,
                        net |-> net, outcome |-> outcome]>>
     /\ loadCall' = <<>>
     /\ UNCHANGED dateNow
     /\ UNCHANGED <<weatherVars, combinedVars, scheduleVars, cycleVars, editVars, storageVars, notificationVars>>

\* a caller reads the cache of an office; loadCall keeps the call
LoadWeatherCache(areaCode) ==
  /\ loadCall' = <<[areaCode |-> areaCode, at |-> dateNow,
                    value |-> loadWeatherCache(cache, areaCode, dateNow)]>>
  /\ fetchCall' = <<>>
  /\ UNCHANGED <<cache, dateNow>>
  /\ UNCHANGED <<weatherVars, combinedVars, scheduleVars, cycleVars, editVars, storageVars, notificationVars>>

NextCache ==
  \/ \E d \in {5} : Tick(d)
  \/ \E areaCode \in CacheCodes : \E net \in NetBehaviours : FetchWeatherForecast(areaCode, net)
  \/ \E areaCode \in CacheCodes : LoadWeatherCache(areaCode)

SpecCache == InitCache /\ [][NextCache]_vars

\* ------------------------------------------------------------------------
\* Properties of the cache and the fetcher (specification SpecCache)
\* ------------------------------------------------------------------------
Fetched == fetchCall # <<>>
TheFetch == fetchCall[1]

\* the entry of the requested office when the fetcher was called
EntryBefore == MapGet(TheFetch.before, TheFetch.areaCode)
\* ... and when it returned
EntryAfter == MapGet(TheFetch.outcome.cache, TheFetch.areaCode)

AgeBefore == TheFetch.at - EntryBefore[1].timestamp

ValidEntry(entry) == entry # <<>> /\ entry[1].parses /\ entry[1].data \in ValidPayloads
InvalidEntry(entry) == entry # <<>> /\ (~entry[1].parses \/ entry[1].data \in InvalidPayloads)

FreshValidBefore == ValidEntry(EntryBefore) /\ AgeBefore < WEATHER_CACHE_TTL

\* the forecast of the requested office that a valid payload parses to: the
\* area is the target for its own office and the first area of the weather
\* series for an office the payload does not cover
ForecastOf(data) ==
  [areaCode |-> TheFetch.areaCode,
   areaName |-> IF TheFetch.areaCode = C130000 THEN "Tokyo" ELSE "Kanagawa",
   publishingOffice |-> "JMA",
   reportDatetime |-> 5,
   timeSeries |-> data.items[1].timeSeries]

NetworkRequested == \E i \in 1..Len(TheFetch.outcome.log) : TheFetch.outcome.log[i] = "network"
CacheWritten == \E i \in 1..Len(TheFetch.outcome.log) : TheFetch.outcome.log[i] = "cacheWrite"

\* C14: with a valid cache entry younger than the lifetime, the fetcher
\* returns the forecast parsed from the cached payload, requests nothing from
\* the network and writes nothing to the cache; in every call the cache read
\* is the first operation, before any network request.
C14_FreshCacheNoNetwork ==
  Fetched =>
    /\ TheFetch.outcome.log[1] = "cacheRead"
    /\ FreshValidBefore =>
         /\ TheFetch.outcome.value = <<ForecastOf(EntryBefore[1].data)>>
         /\ TheFetch.outcome.error = <<>>
         /\ ~NetworkRequested
         /\ ~CacheWritten
         /\ TheFetch.outcome.cache = TheFetch.before

\* the rainy payload cached 10 minutes ago is served while the network
\* would have answered with the dry payload
C14_Witness ==
  /\ Fetched
  /\ FreshValidBefore
  /\ AgeBefore = 10
  /\ EntryBefore[1].data = RainyPayload
  /\ TheFetch.net = Responds(TRUE, DryPayload)
  /\ TheFetch.outcome.value = <<ForecastOf(RainyPayload)>>

Loaded == loadCall # <<>>
TheLoad == loadCall[1]
LoadedEntry == MapGet(cache, TheLoad.areaCode)
LoadedAge == TheLoad.at - LoadedEntry[1].timestamp

C16_InvalidEntryRefetched ==
  /\ (Loaded /\ InvalidEntry(LoadedEntry)) => TheLoad.value = <<>>
  /\ Fetched =>
       /\ InvalidEntry(EntryBefore) =>
            /\ NetworkRequested
            /\ (TheFetch.net.kind = "response" /\ TheFetch.net.ok
                /\ TheFetch.net.body \in ValidPayloads) =>
                 /\ EntryAfter = <<CacheEntry(TheFetch.net.body, TheFetch.at, TheFetch.areaCode)>>
                 /\ TheFetch.outcome.value = <<ForecastOf(TheFetch.net.body)>>
       /\ (NetworkRequested /\ TheFetch.net.body \in InvalidPayloads) =>
            /\ ~CacheWritten
            /\ TheFetch.outcome.cache = TheFetch.before
            /\ TheFetch.outcome.value = <<>>

\* an unreadable entry is replaced by the valid response fetched 5 minutes later
C16_Witness ==
  /\ Fetched
  /\ EntryBefore = <<Garbled>>
  /\ TheFetch.at = 5
  /\ TheFetch.net = Responds(TRUE, RainyPayload)
  /\ EntryAfter = <<CacheEntry(RainyPayload, 5, TheFetch.areaCode)>>

\* the transport threw an Error whose lower-cased message contains the phrase
TransportErrorMentions(phrase) ==
  /\ NetworkRequested
  /\ TheFetch.net.kind \in {"throw", "badjson"}
  /\ TheFetch.net.thrown.kind = "Error"
  /\ includes(toLowerCase(TheFetch.net.thrown.message), phrase)

FetchError == TheFetch.outcome.error[1]

\* C17 as stated: the fetcher fails only with type 'offline' or 'api', and
\* with 'offline' exactly when the thrown transport error's message contains
\* 'network', 'failed to fetch' or 'timeout'.
C17_OfflineKeywords ==
  (Fetched /\ TheFetch.outcome.error # <<>>) =>
    /\ FetchError.type \in {"offline", "api"}
    /\ FetchError.type = "offline"
         <=> \/ TransportErrorMentions(<<"network">>)
             \/ TransportErrorMentions(<<"failed", "to", "fetch">>)
             \/ TransportErrorMentions(<<"timeout">>)

\* C17 amended: the fetcher fails only with type 'offline' or 'api', and with
\* 'offline' exactly when the thrown transport error's message contains
\* 'network', 'failed to fetch', 'request failed' or 'timeout'.
C17_OfflineKeywordsAmended ==
  (Fetched /\ TheFetch.outcome.error # <<>>) =>
    /\ FetchError.type \in {"offline", "api"}
    /\ FetchError.type = "offline"
         <=> \/ TransportErrorMentions(<<"network">>)
             \/ TransportErrorMentions(<<"failed", "to", "fetch">>)
             \/ TransportErrorMentions(<<"request", "failed">>)
             \/ TransportErrorMentions(<<"timeout">>)

\* an Error 'Request failed' from the transport is reported as offline
C17_Witness ==
  /\ Fetched
  /\ TheFetch.net = Throws(Thrown("Error", <<"Request", "failed">>))
  /\ TheFetch.outcome.error = <<buildAppError("offline", <<"offline">>)>>

\* ------------------------------------------------------------------------
\* Settings screen: the weekly schedule and the stored locations
\*
\* settings is the record [locations, weeklySchedule, originLocationId,
\* destinationLocationId]; a location reference is an optional id.
\* ------------------------------------------------------------------------
\* largest number of edits in a session of the settings screen
MaxEdits == 3

createDefaultDaySchedule(enabled) == DaySchedule(enabled, <<>>, <<>>, Time(9, 0), Time(18, 0))

\* weekdays enabled, weekend disabled
DEFAULT_WEEKLY_SCHEDULE == [d \in Days |-> <<createDefaultDaySchedule(d \in 1..5)>>]

\* settings.weeklySchedule ?? DEFAULT_WEEKLY_SCHEDULE
WeeklyOrDefault(s) == OrElse(s.weeklySchedule, DEFAULT_WEEKLY_SCHEDULE)

\* settings.weeklySchedule?.[selectedDay] ?? DEFAULT_WEEKLY_SCHEDULE[selectedDay]
getSelectedDaySchedule(s, selectedDay) ==
  OrElse(ScheduleOf(s, selectedDay), DEFAULT_WEEKLY_SCHEDULE[selectedDay][1])

\* only the selected day's entry is kept
updateDaySchedule_OnlySelected(s, selectedDay, schedule) ==
  [s EXCEPT !.weeklySchedule =
     <<[d \in Days |-> IF d = selectedDay THEN <<schedule>> ELSE <<>>]>>]

\* the settings after the selected day's entry is replaced
updateDaySchedule(s, selectedDay, schedule) ==
  [s EXCEPT !.weeklySchedule = <<[WeeklyOrDefault(s) EXCEPT ![selectedDay] = <<schedule>>]>>]

handleDayOriginChange(s, selectedDay, locationId) ==
  updateDaySchedule(s, selectedDay,
    [getSelectedDaySchedule(s, selectedDay) EXCEPT !.originLocationId = locationId])

handleDayDestinationChange(s, selectedDay, locationId) ==
  updateDaySchedule(s, selectedDay,
    [getSelectedDaySchedule(s, selectedDay) EXCEPT !.destinationLocationId = locationId])

\* one day of the deletion loop: both branches spread the entry read at the
\* top of the iteration, and the later assignment replaces the earlier one
RemovedFromDay(schedule, locationId) ==
  LET originCleared ==
        IF schedule.originLocationId = <<locationId>>
        THEN [schedule EXCEPT !.originLocationId = <<>>]
        ELSE schedule
  IN IF schedule.destinationLocationId = <<locationId>>
     THEN [schedule EXCEPT !.destinationLocationId = <<>>]
     ELSE originCleared

\* the user switches the outing of the selected day on or off
handleDayEnabledToggle(s, selectedDay, enabled) ==
  updateDaySchedule(s, selectedDay,
    [getSelectedDaySchedule(s, selectedDay) EXCEPT !.enabled = enabled])

\* the user picks the start or the end of the selected day's outing
handleDayTimeChange(s, selectedDay, type, hour, minute) ==
  LET timeStr == Time(hour, minute)
      schedule == getSelectedDaySchedule(s, selectedDay)
  IN updateDaySchedule(s, selectedDay,
       [schedule EXCEPT
          !.outingStart = IF type = "start" THEN timeStr ELSE schedule.outingStart,
          !.outingEnd = IF type = "end" THEN timeStr ELSE schedule.outingEnd])

\* the user confirms that the selected day's entry is copied to Monday..Friday
applyToWeekdays(s, selectedDay) ==
  LET currentSchedule == getSelectedDaySchedule(s, selectedDay)
  IN [s EXCEPT !.weeklySchedule =
        <<[day \in Days |-> IF day \in 1..5 THEN <<currentSchedule>>
                            ELSE WeeklyOrDefault(s)[day]]>>]

\* the user picks a place on the map: a new location is stored and, in the
\* modes 'origin' and 'destination', referenced by the selected day
handleSelectLocation(s, locationPickerMode, selectedDay, newLocation) ==
  LET added == [s EXCEPT !.locations = Append(@, newLocation)]
      currentSchedule == getSelectedDaySchedule(s, selectedDay)
  IN IF locationPickerMode = "add" THEN added
     ELSE IF locationPickerMode = "origin"
          THEN [added EXCEPT
                  !.weeklySchedule =
                     <<[WeeklyOrDefault(s) EXCEPT ![selectedDay] =
                          <<[currentSchedule EXCEPT !.originLocationId = <<newLocation.id>>]>>]>>,
                  !.originLocationId = <<newLocation.id>>]
          ELSE [added EXCEPT
                  !.weeklySchedule =
                     <<[WeeklyOrDefault(s) EXCEPT ![selectedDay] =
                          <<[currentSchedule EXCEPT
                               !.destinationLocationId = <<newLocation.id>>]>>]>>,
                  !.destinationLocationId = <<newLocation.id>>]

\* settings.locations.filter(loc => loc.id !== locationId)
RECURSIVE WithoutLocation(_, _)
WithoutLocation(locations, locationId) ==
  IF Len(locations) = 0 THEN <<>>
  ELSE IF locations[1].id = locationId THEN WithoutLocation(Tail(locations), locationId)
  ELSE <<locations[1]>> \o WithoutLocation(Tail(locations), locationId)

\* the settings after the user confirms the deletion of a location
handleRemoveLocation(s, locationId) ==
  [s EXCEPT
     !.locations = WithoutLocation(s.locations, locationId),
     !.weeklySchedule =
        <<[day \in Days |-> <<RemovedFromDay(WeeklyOrDefault(s)[day][1], locationId)>>]>>,
     !.originLocationId = IF @ = <<locationId>> THEN <<>> ELSE @,
     !.destinationLocationId = IF @ = <<locationId>> THEN <<>> ELSE @]

StoredLocations ==
  << Location("loc1", "Home", C130000, FALSE), Location("loc2", "Office", C270000, FALSE) >>

LocationIds(s) == { s.locations[i].id : i \in 1..Len(s.locations) }

\* the choices of a location picker: none, or a stored location
PickerChoices(s) == {<<>>} \cup { <<id>> : id \in LocationIds(s) }

\* ------------------------------------------------------------------------
\* The settings item of AsyncStorage
\*
\* The JSON text of a settings object is the record of its members, the
\* weekly schedule being the list of its <<key, value>> members: the key is
\* the weekday written as a string, integer keys come in ascending order and
\* a weekday without an entry has no member.
\* ------------------------------------------------------------------------
RECURSIVE MembersFrom(_, _)
MembersFrom(weeklySchedule, d) ==
  IF d > 6 THEN <<>>
  ELSE IF d \in DOMAIN weeklySchedule /\ weeklySchedule[d] # <<>>
       THEN <<<<ToString(d), weeklySchedule[d][1]>>>> \o MembersFrom(weeklySchedule, d + 1)
       ELSE MembersFrom(weeklySchedule, d + 1)

\* JSON.stringify(settings)
JSONstringify(s) ==
  [s EXCEPT !.weeklySchedule = IF @ = <<>> THEN <<>> ELSE <<MembersFrom(@[1], 0)>>]

\* JSON.parse(json): the weekly schedule object answers undefined for a
\* weekday that has no member
JSONparse(json) ==
  [json EXCEPT !.weeklySchedule =
     IF @ = <<>> THEN <<>> ELSE <<[d \in Days |-> MapGet(@[1], ToString(d))]>>]

\* saveSettings(settings): the new content of the settings item
saveSettings(s) == <<JSONstringify(s)>>

InitSettings ==
  /\ settings = [locations |-> StoredLocations,
                 weeklySchedule |-> <<DEFAULT_WEEKLY_SCHEDULE>>,
                 originLocationId |-> <<>>,
                 destinationLocationId |-> <<>>]
  /\ now = [day |-> 0]
  /\ scheduleResult = <<>>
  /\ edits = 0
  /\ removal = <<>>
  /\ asyncStorage = saveSettings(settings)
  /\ lastOp = <<>>
  /\ IdleWeather
  /\ IdleCombined
  /\ IdleCache
  /\ IdleCycle
  /\ IdleNotification

\* an edit of the settings screen: the handler sets the new settings and
\* saves them
Edited ==
  /\ edits < MaxEdits
  /\ edits' = edits + 1
  /\ asyncStorage' = saveSettings(settings')
  /\ UNCHANGED <<now, scheduleResult>>
  /\ UNCHANGED <<weatherVars, combinedVars, cacheVars, cycleVars, notificationVars>>

\* the user picks the origin of a weekday
HandleDayOriginChange(selectedDay, locationId) ==
  /\ settings' = handleDayOriginChange(settings, selectedDay, locationId)
  /\ Edited
  /\ removal' = <<>>
  /\ lastOp' = <<>>

\* the user picks the destination of a weekday
HandleDayDestinationChange(selectedDay, locationId) ==
  /\ settings' = handleDayDestinationChange(settings, selectedDay, locationId)
  /\ Edited
  /\ removal' = <<>>
  /\ lastOp' = <<>>

\* the user confirms the deletion of a stored location; removal keeps its id
HandleRemoveLocation(locationId) ==
  /\ settings' = handleRemoveLocation(settings, locationId)
  /\ Edited
  /\ removal' = <<[locationId |-> locationId, before |-> settings]>>
  /\ lastOp' = <<>>

NextSettings ==
  \/ \E selectedDay \in Days : \E locationId \in PickerChoices(settings) :
       HandleDayOriginChange(selectedDay, locationId)
  \/ \E selectedDay \in Days : \E locationId \in PickerChoices(settings) :
       HandleDayDestinationChange(selectedDay, locationId)
  \/ \E locationId \in LocationIds(settings) : HandleRemoveLocation(locationId)

SpecSettings == InitSettings /\ [][NextSettings]_vars

\* ------------------------------------------------------------------------
\* Properties of the settings screen (specification SpecSettings)
\* ------------------------------------------------------------------------
Removed == removal # <<>>
RemovedId == removal[1].locationId

\* C13: right after the user confirms the deletion of a stored location, the
\* location is not in the list and no weekday's entry has an origin or a
\* destination reference to it, whatever the schedule was before.
C13_DeleteCascades ==
  Removed =>
    /\ RemovedId \notin LocationIds(settings)
    /\ \A day \in Days :
         /\ getSelectedDaySchedule(settings, day).originLocationId # <<RemovedId>>
         /\ getSelectedDaySchedule(settings, day).destinationLocationId # <<RemovedId>>

\* ------------------------------------------------------------------------
\* Home screen: the fetch cycle (fetchData)
\*
\* Here settings is the record saved in storage, with the fields
\* [locations, weeklySchedule, umbrellaCriteria, originLocationId,
\* destinationLocationId, defaultOutingStart, defaultOutingEnd], and now is
\* the wall clock [day, minutes]: weekday and minutes since midnight.
\* ------------------------------------------------------------------------
\* number of fetch cycles that can be in flight
MaxCycles == 2

\* Saturday comes out enabled
migrateToWeeklySchedule_SaturdayOn(oldSettings) ==
  LET baseSchedule ==
        DaySchedule(TRUE, oldSettings.originLocationId, oldSettings.destinationLocationId,
                    OrElse(oldSettings.defaultOutingStart, Time(9, 0)),
                    OrElse(oldSettings.defaultOutingEnd, Time(18, 0)))
  IN [d \in Days |-> <<[baseSchedule EXCEPT !.enabled = d \in 1..6]>>]

\* the weekly schedule generated from settings saved before there was one
migrateToWeeklySchedule(oldSettings) ==
  LET baseSchedule ==
        DaySchedule(TRUE, oldSettings.originLocationId, oldSettings.destinationLocationId,
                    OrElse(oldSettings.defaultOutingStart, Time(9, 0)),
                    OrElse(oldSettings.defaultOutingEnd, Time(18, 0)))
  IN [d \in Days |-> <<[baseSchedule EXCEPT !.enabled = d \in 1..5]>>]

\* the settings of a fresh installation
DEFAULT_SETTINGS ==
  [locations |-> <<>>, weeklySchedule |-> <<DEFAULT_WEEKLY_SCHEDULE>>,
   umbrellaCriteria |-> DEFAULT_CRITERIA,
   originLocationId |-> <<>>, destinationLocationId |-> <<>>,
   defaultOutingStart |-> <<Time(9, 0)>>, defaultOutingEnd |-> <<Time(18, 0)>>]

\* the weekly schedule ignores what was saved
loadSettings_DefaultsOver(saved) ==
  [saved EXCEPT
     !.weeklySchedule = <<DEFAULT_WEEKLY_SCHEDULE>>,
     !.defaultOutingStart = IF @ = <<>> THEN DEFAULT_SETTINGS.defaultOutingStart ELSE @,
     !.defaultOutingEnd = IF @ = <<>> THEN DEFAULT_SETTINGS.defaultOutingEnd ELSE @]

\* loadSettings() over a saved record: the saved weekly schedule laid over
\* the default one, or the migrated one when none was saved; a member that
\* was not saved has the default value
loadSettings(saved) ==
  LET weeklySchedule ==
        IF saved.weeklySchedule # <<>>
        THEN [d \in Days |-> IF ScheduleOf(saved, d) # <<>> THEN ScheduleOf(saved, d)
                             ELSE DEFAULT_WEEKLY_SCHEDULE[d]]
        ELSE migrateToWeeklySchedule(saved)
  IN [saved EXCEPT
        !.weeklySchedule = <<weeklySchedule>>,
        !.defaultOutingStart = IF @ = <<>> THEN DEFAULT_SETTINGS.defaultOutingStart ELSE @,
        !.defaultOutingEnd = IF @ = <<>> THEN DEFAULT_SETTINGS.defaultOutingEnd ELSE @]

\* loadSettings() over the settings item: nothing stored gives the defaults
loadSettingsFrom(item) ==
  IF item = <<>> THEN DEFAULT_SETTINGS ELSE loadSettings(JSONparse(item[1]))

\* what the platform gives the location resolver: the permission, the value
\* thrown by the position or geocoding call (<<>> when none), the addresses
\* found, the prefecture of the first address ("" when it has none) and the
\* office code the prefecture table gives for it (<<>> when it has none)
GpsEnv(permission, thrown, addresses, prefecture, office) ==
  [permission |-> permission, thrown |-> thrown, addresses |-> addresses,
   prefecture |-> prefecture, office |-> office]

classifyLocationError(error) == IF isOfflineError(error) THEN "offline" ELSE "api"

LocationFailure(errorType) ==
  [success |-> FALSE, areaCode |-> <<>>, areaName |-> "", errorType |-> <<errorType>>]

\* getCurrentLocation() in the environment env
getCurrentLocation(env) ==
  IF ~env.permission THEN LocationFailure("permission")
  ELSE IF env.thrown # <<>> THEN LocationFailure(classifyLocationError(env.thrown[1]))
  ELSE IF env.addresses > 0
       THEN LET areaCode == IF env.prefecture # "" THEN env.office ELSE <<>>
            IN IF areaCode # <<>>
               THEN [success |-> TRUE, areaCode |-> areaCode,
                     areaName |-> env.prefecture,
                     errorType |-> <<>>]
               ELSE LocationFailure("manual_location")
       ELSE LocationFailure("manual_location")

\* an exception as the AppError the screen shows
normalizeError(value) ==
  IF isAppError(value) THEN value
  ELSE IF value.kind = "Error" THEN buildAppError("unknown", value.message)
  ELSE buildAppError("unknown", <<"unexpected_error">>)

\* the lookup that falls back to the first stored location
FindLocation_OrFirst(locations, id) ==
  IF Len(locations) > 0 THEN <<locations[1]>> ELSE <<>>
\* locations.find(loc => loc.id === id) for an optional id
FindLocation(locations, id) ==
  LET i == FirstIndex([j \in 1..Len(locations) |-> <<locations[j].id>> = id])
  IN IF i # 0 THEN <<locations[i]>> ELSE <<>>

\* the clock is past the end of the outing: the end minute itself included
PastOutingEnd_Inclusive(currentMinutes, endMinutes) == currentMinutes >= endMinutes
\* the clock is past the end of the outing
PastOutingEnd(currentMinutes, endMinutes) == currentMinutes > endMinutes

\* the weekday of the schedule in use: always today
TargetDay_Today(useTomorrow, today) == today
\* the weekday of the schedule in use
TargetDay(useTomorrow, today) == IF useTomorrow THEN (today + 1) % 7 ELSE today

\* the result rendered for a day without outing
NoOutingResult(targetDay) ==
  [overallDecision |-> "not_required",
   overallMessage |-> <<"no_outing_on", targetDay>>,
   origin |-> <<>>,
   destination |-> <<>>]

\* the error type shown for a failed location result: always 'unknown'
GpsErrorType_Unknown(locationResult) == "unknown"
\* the error type shown for a failed location result
GpsErrorType(locationResult) == OrElse(locationResult.errorType, "unknown")

\* the locals of a fetch cycle that has not started.  fetched (the offices
\* passed to fetchWeatherForecast), resolved (getCurrentLocation was
\* called), consulted (the weekdays whose schedule was looked up), clock
\* (the clock reading of the cycle), locationResult and computed (the
\* overall result the cycle arrived at) record what the cycle did.
NewCycle ==
  [pc |-> "idle", loaded |-> <<>>, useTomorrow |-> FALSE, targetSchedule |-> <<>>,
   phase |-> "origin", location |-> <<>>,
   originResult |-> <<>>, destinationResult |-> <<>>,
   fetched |-> <<>>, resolved |-> FALSE, consulted |-> {}, clock |-> <<>>,
   locationResult |-> <<>>, computed |-> <<>>]

\* the rendered state of the home screen before the first cycle; finished
\* lists the cycles in the order in which they returned
NewScreen ==
  [error |-> <<>>, combinedResult |-> <<>>, showingTomorrow |-> FALSE,
   outingTime |-> [start |-> <<Time(9, 0)>>, end |-> <<Time(18, 0)>>],
   finished |-> <<>>]

\* the cycle c returns (finally block): <<locals, rendered state>>
Return(c, cy, scr) ==
  <<[cy EXCEPT !.pc = "done"], [scr EXCEPT !.finished = Append(@, c)]>>

\* the catch block, or an early return after setError
Fail(c, cy, scr, error) == Return(c, cy, [scr EXCEPT !.error = <<error>>])

\* a later cycle has returned: the result of this one is dropped
Finish_UnlessSuperseded(c, cy, scr) ==
  LET combined == determineCombinedUmbrella(cy.originResult, cy.destinationResult)
  IN IF \E i \in 1..Len(scr.finished) : scr.finished[i] > c
     THEN Return(c, [cy EXCEPT !.computed = <<combined>>], scr)
     ELSE Return(c, [cy EXCEPT !.computed = <<combined>>],
                 [scr EXCEPT !.combinedResult = <<combined>>])
\* the overall decision is rendered and the cycle returns
Finish(c, cy, scr) ==
  LET combined == determineCombinedUmbrella(cy.originResult, cy.destinationResult)
  IN Return(c, [cy EXCEPT !.computed = <<combined>>],
            [scr EXCEPT !.combinedResult = <<combined>>])

\* the destination part: fetch for a stored destination, else finish
DestinationPart(c, cy, scr) ==
  LET destLocation ==
        IF cy.targetSchedule[1].destinationLocationId # <<>>
        THEN FindLocation(cy.loaded[1].locations, cy.targetSchedule[1].destinationLocationId)
        ELSE <<>>
  IN IF destLocation # <<>>
     THEN <<[cy EXCEPT !.pc = "fetch", !.phase = "destination", !.location = destLocation], scr>>
     ELSE Finish(c, cy, scr)

\* the continuation of fetchData after loadSettings, with the clock `clock`
AfterLoadSettings(c, cy, saved, clock, scr) ==
  LET loadedSettings == loadSettings(saved)
      todaySchedule == getTodaySchedule(loadedSettings, clock)
      currentMinutes == clock.minutes
      useTomorrow ==
        IF todaySchedule # <<>>
        THEN PastOutingEnd(currentMinutes,
                           todaySchedule[1].outingEnd.hour * 60 + todaySchedule[1].outingEnd.minute)
        ELSE TRUE
      targetSchedule ==
        IF useTomorrow THEN getTomorrowSchedule(loadedSettings, clock) ELSE todaySchedule
      started == [cy EXCEPT !.loaded = <<loadedSettings>>, !.useTomorrow = useTomorrow,
                            !.targetSchedule = targetSchedule, !.clock = <<clock>>,
                            !.consulted = IF useTomorrow THEN {clock.day, TomorrowOf(clock.day)}
                                          ELSE {clock.day}]
      shown == [scr EXCEPT !.showingTomorrow = useTomorrow]
  IN IF targetSchedule = <<>>
     THEN LET noOuting == NoOutingResult(TargetDay(useTomorrow, clock.day))
          IN Return(c, [started EXCEPT !.computed = <<noOuting>>],
                    [shown EXCEPT !.outingTime = [start |-> <<>>, end |-> <<>>],
                                  !.combinedResult = <<noOuting>>])
     ELSE LET timed == [shown EXCEPT !.outingTime = [start |-> <<targetSchedule[1].outingStart>>,
                                                     end |-> <<targetSchedule[1].outingEnd>>]]
          IN IF targetSchedule[1].originLocationId # <<>>
             THEN LET originLocation ==
                        FindLocation(loadedSettings.locations, targetSchedule[1].originLocationId)
                  IN IF originLocation # <<>>
                     THEN <<[started EXCEPT !.pc = "fetch", !.location = originLocation], timed>>
                     ELSE DestinationPart(c, started, timed)
             ELSE <<[started EXCEPT !.pc = "gps", !.resolved = TRUE], timed>>

\* the continuation of fetchData after fetchWeatherForecast resolved to `fc`
\* for the location of the current phase
AfterForecast(c, cy, scr, fc) ==
  LET outingTimeSettings == [start |-> cy.targetSchedule[1].outingStart,
                             end |-> cy.targetSchedule[1].outingEnd]
      result == [location |-> cy.location[1],
                 result |-> determineUmbrella(fc, outingTimeSettings,
                                              cy.loaded[1].umbrellaCriteria)]
  IN IF cy.phase = "origin"
     THEN DestinationPart(c, [cy EXCEPT !.originResult = <<result>>], scr)
     ELSE Finish(c, [cy EXCEPT !.destinationResult = <<result>>], scr)

\* the continuation of fetchData after getCurrentLocation resolved
AfterGetCurrentLocation(c, cy, scr, locationResult) ==
  LET located == [cy EXCEPT !.locationResult = <<locationResult>>]
  IN IF ~locationResult.success
     THEN Fail(c, located, scr,
               buildAppError(GpsErrorType(locationResult), <<"location_failed">>))
     ELSE IF locationResult.areaCode = <<>>
     THEN Fail(c, located, scr, buildAppError("manual_location", <<"prefecture_unknown">>))
     ELSE LET gpsLocation ==
                Location("gps",
                         IF locationResult.areaName # "" THEN locationResult.areaName ELSE "here",
                         locationResult.areaCode[1], TRUE)
          IN <<[located EXCEPT !.pc = "fetch", !.location = <<gpsLocation>>], scr>>

\* ------------------------------------------------------------------------
\* Inputs of the fetch cycle
\* ------------------------------------------------------------------------
Cycles == 1..MaxCycles

SavedSettings(locations, weeklySchedule, originLocationId, destinationLocationId) ==
  [locations |-> locations, weeklySchedule |-> weeklySchedule,
   umbrellaCriteria |-> DEFAULT_CRITERIA,
   originLocationId |-> originLocationId, destinationLocationId |-> destinationLocationId,
   defaultOutingStart |-> <<Time(9, 0)>>, defaultOutingEnd |-> <<Time(18, 0)>>]

\* a weekday's entry: disabled, a day outing 09:00-18:00, a night outing 22:00-02:00
CycleDay(kind, origin, dest) ==
  IF kind = "disabled" THEN DaySchedule(FALSE, origin, dest, Time(9, 0), Time(18, 0))
  ELSE IF kind = "day" THEN DaySchedule(TRUE, origin, dest, Time(9, 0), Time(18, 0))
  ELSE DaySchedule(TRUE, origin, dest, Time(22, 0), Time(2, 0))

\* origin references: GPS, a stored location, a location no longer stored
OriginRefs == {<<>>, <<"loc1">>, <<"gone">>}
\* destination references: none, a stored location, a location no longer stored
DestinationRefs == {<<>>, <<"loc2">>, <<"gone">>}

\* Friday and Saturday in every kind, Sunday disabled or a day outing,
\* Monday a day outing, the other days disabled
CycleWeeklySchedules ==
  { [d \in Days |->
       <<CycleDay(IF d = 5 THEN fri ELSE IF d = 6 THEN sat ELSE IF d = 0 THEN sun
                  ELSE IF d = 1 THEN "day" ELSE "disabled", origin, dest)>>]
    : fri \in {"disabled", "day", "night"}, sat \in {"disabled", "day", "night"},
      sun \in {"disabled", "day"}, origin \in OriginRefs, dest \in DestinationRefs }

CycleSettings ==
  { SavedSettings(StoredLocations, <<w>>, <<>>, <<>>) : w \in CycleWeeklySchedules }
  \cup { SavedSettings(StoredLocations, <<>>, <<"loc1">>, <<"loc2">>) }

\* Friday or Saturday at 01:00, 02:00, 02:01, 18:00, 18:01 or 23:00
CycleClocks == [day : {5, 6}, minutes : {60, 120, 121, 1080, 1081, 1380}]

GpsEnvs ==
  { GpsEnv(FALSE, <<>>, 0, "", <<>>),
    GpsEnv(TRUE, <<Thrown("Error", <<"Network", "request", "failed">>)>>, 0, "", <<>>),
    GpsEnv(TRUE, <<Thrown("other", <<>>)>>, 0, "", <<>>),
    GpsEnv(TRUE, <<>>, 0, "", <<>>),
    GpsEnv(TRUE, <<>>, 1, "", <<>>),
    GpsEnv(TRUE, <<>>, 1, "Atlantis", <<>>),
    GpsEnv(TRUE, <<>>, 1, "Tokyo", <<C130000>>) }

CycleNets ==
  { Responds(TRUE, RainyPayload), Responds(TRUE, DryPayload), Responds(FALSE, NotAnArray),
    Throws(Thrown("Error", <<"Network", "request", "failed">>)) }

\* ------------------------------------------------------------------------
\* Fetch cycle: state and actions (specifications SpecCycle, SpecOverlap)
\* ------------------------------------------------------------------------
InitCycleWith(settingsSet, clocks, n) ==
  /\ settings \in settingsSet
  /\ now \in clocks
  /\ scheduleResult = <<>>
  /\ cycles = [c \in Cycles |-> NewCycle]
  /\ screen = NewScreen
  /\ triggers = n
  /\ IdleWeather
  /\ IdleCombined
  /\ IdleCache
  /\ IdleEdit
  /\ IdleStorage
  /\ IdleNotification

InitCycle == InitCycleWith(CycleSettings, CycleClocks, 1)

CycleFrame ==
  /\ UNCHANGED <<dateNow, fetchCall, loadCall>>
  /\ UNCHANGED <<weatherVars, combinedVars, scheduleVars, editVars, storageVars, notificationVars>>

\* the locals of cycle c and the rendered state become the pair
Becomes(c, pair) ==
  /\ cycles' = [cycles EXCEPT ![c] = pair[1]]
  /\ screen' = pair[2]

\* fetchData is called (mount, focus, pull-to-refresh, time change): the
\* error is cleared and the settings are requested
Start(c) ==
  /\ triggers > 0
  /\ cycles[c].pc = "idle"
  /\ \A b \in 1..(c - 1) : cycles[b].pc # "idle"
  /\ triggers' = triggers - 1
  /\ Becomes(c, <<[cycles[c] EXCEPT !.pc = "loadSettings"], [screen EXCEPT !.error = <<>>]>>)
  /\ UNCHANGED cache
  /\ CycleFrame

\* loadSettings resolves: the schedule in use is chosen
SettingsLoaded(c) ==
  /\ cycles[c].pc = "loadSettings"
  /\ Becomes(c, AfterLoadSettings(c, cycles[c], settings, now, screen))
  /\ UNCHANGED <<cache, triggers>>
  /\ CycleFrame

\* getCurrentLocation resolves
LocationResolved(c, env) ==
  /\ cycles[c].pc = "gps"
  /\ Becomes(c, AfterGetCurrentLocation(c, cycles[c], screen, getCurrentLocation(env)))
  /\ UNCHANGED <<cache, triggers>>
  /\ CycleFrame

\* the cache read of fetchWeatherForecast resolves: a hit gives the forecast
CacheRead(c) ==
  LET cy == [cycles[c] EXCEPT !.fetched = Append(@, cycles[c].location[1].areaCode)]
      areaCode == cy.location[1].areaCode
      cachedForecast == CacheHit(loadWeatherCache(cache, areaCode, dateNow), areaCode)
  IN /\ cycles[c].pc = "fetch"
     /\ IF cachedForecast # <<>>
        THEN Becomes(c, AfterForecast(c, cy, screen, cachedForecast[1]))
        ELSE Becomes(c, <<[cy EXCEPT !.pc = "network"], screen>>)
     /\ UNCHANGED <<cache, triggers>>
     /\ CycleFrame

\* the network request of fetchWeatherForecast resolves or fails
NetworkReturned(c, net) ==
  LET cy == cycles[c]
      outcome == fetchFromNetwork(cy.location[1].areaCode, cache, dateNow, net)
  IN /\ cy.pc = "network"
     /\ cache' = outcome.cache
     /\ IF outcome.error # <<>>
        THEN Becomes(c, Fail(c, cy, screen, normalizeError(outcome.error[1])))
        ELSE Becomes(c, AfterForecast(c, cy, screen, outcome.value[1]))
     /\ UNCHANGED triggers
     /\ CycleFrame

NextCycle ==
  \E c \in Cycles :
    \/ Start(c)
    \/ SettingsLoaded(c)
    \/ \E env \in GpsEnvs : LocationResolved(c, env)
    \/ CacheRead(c)
    \/ \E net \in CycleNets : NetworkReturned(c, net)

SpecCycle == InitCycle /\ [][NextCycle]_vars

\* Friday is a day outing from GPS or a stored origin, with or without a
\* stored destination; it is 10:00 and fetchData is called twice
OverlapSettings ==
  { SavedSettings(StoredLocations,
                  <<[d \in Days |-> <<CycleDay(IF d = 5 THEN "day" ELSE "disabled", origin, dest)>>]>>,
                  <<>>, <<>>)
    : origin \in {<<>>, <<"loc1">>}, dest \in {<<>>, <<"loc2">>} }

InitOverlap == InitCycleWith(OverlapSettings, {[day |-> 5, minutes |-> 600]}, 2)

SpecOverlap == InitOverlap /\ [][NextCycle]_vars

\* ------------------------------------------------------------------------
\* Properties of one fetch cycle (specification SpecCycle)
\* ------------------------------------------------------------------------
Cy == cycles[1]

\* the cycle has chosen its schedule
Chosen == Cy.pc \notin {"idle", "loadSettings"}
Returned1 == Cy.pc = "done"

\* the entry of weekday d as loadSettings delivers it: the saved entry, or
\* for settings saved without a weekly schedule an entry built from the
\* former global references, enabled on weekdays
EntryOf(d) ==
  IF settings.weeklySchedule = <<>>
  THEN DaySchedule(d \in 1..5, settings.originLocationId, settings.destinationLocationId,
                   Time(9, 0), Time(18, 0))
  ELSE settings.weeklySchedule[1][d][1]

Today == now.day
Tomorrow == IF now.day = 6 THEN 0 ELSE now.day + 1

EndOfToday == EntryOf(Today).outingEnd.hour * 60 + EntryOf(Today).outingEnd.minute

\* the schedule a lookup gives for weekday d: null for a disabled day
LookedUp(d) == IF EntryOf(d).enabled THEN <<EntryOf(d)>> ELSE <<>>

\* C11: a fetch cycle uses tomorrow's schedule and sets the showing-tomorrow
\* flag exactly when today's schedule is null or the minute of the day is
\* strictly greater than today's outingEnd minute; otherwise, also at the end
\* minute itself, it uses today's schedule and clears the flag.  The
\* comparison ignores the wrap over midnight.
C11_RolloverCondition ==
  Chosen =>
    /\ Cy.useTomorrow <=> (~EntryOf(Today).enabled \/ now.minutes > EndOfToday)
    /\ screen.showingTomorrow = Cy.useTomorrow
    /\ Cy.targetSchedule = IF Cy.useTomorrow THEN LookedUp(Tomorrow) ELSE LookedUp(Today)

\* at 23:00, inside today's window 22:00-02:00, the cycle shows tomorrow
C11_Witness ==
  /\ Chosen
  /\ EntryOf(Today).enabled
  /\ EntryOf(Today).outingStart = Time(22, 0)
  /\ EntryOf(Today).outingEnd = Time(2, 0)
  /\ now.minutes = 1380
  /\ Cy.useTomorrow
  /\ screen.showingTomorrow

\* C12: when the cycle switches to tomorrow and tomorrow is disabled, the
\* rendered result is 'not_required' with the no-outing message for
\* tomorrow's weekday, no location is resolved, no forecast is fetched and no
\* weekday after tomorrow is looked up.
C12_OneDayLookahead ==
  (Returned1 /\ Cy.useTomorrow /\ ~EntryOf(Tomorrow).enabled) =>
    /\ screen.combinedResult =
         <<[overallDecision |-> "not_required",
            overallMessage |-> <<"no_outing_on", Tomorrow>>,
            origin |-> <<>>,
            destination |-> <<>>]>>
    /\ screen.error = <<>>
    /\ ~Cy.resolved
    /\ Cy.fetched = <<>>
    /\ Cy.consulted \subseteq {Today, Tomorrow}

\* Friday after the outing, Saturday disabled, Sunday enabled: no outing on Saturday
C12_Witness ==
  /\ Returned1
  /\ Today = 5
  /\ EntryOf(5).enabled
  /\ ~EntryOf(6).enabled
  /\ EntryOf(0).enabled
  /\ Cy.useTomorrow
  /\ screen.combinedResult # <<>>
  /\ screen.combinedResult[1].overallMessage = <<"no_outing_on", 6>>

UsesGps == Cy.targetSchedule # <<>> /\ Cy.targetSchedule[1].originLocationId = <<>>

\* the resolver failed, or succeeded without an office code
GpsFailed ==
  /\ Cy.locationResult # <<>>
  /\ (~Cy.locationResult[1].success \/ Cy.locationResult[1].areaCode = <<>>)

\* C18: when the day in use has no origin reference and the location
\* resolver fails or gives no office code, the cycle sets the error to the
\* resolver's error type ('manual_location' when only the office code is
\* missing, 'unknown' when the resolver gives no type), fetches no forecast
\* and writes no combined result.
C18_GpsFailureStops ==
  (Returned1 /\ UsesGps /\ GpsFailed) =>
    /\ screen.error # <<>>
    /\ screen.error[1].type =
         IF Cy.locationResult[1].errorType # <<>> THEN Cy.locationResult[1].errorType[1]
         ELSE IF Cy.locationResult[1].success THEN "manual_location"
         ELSE "unknown"
    /\ Cy.fetched = <<>>
    /\ screen.combinedResult = <<>>

\* the prefecture is not in the table and the day has a stored destination:
\* the error is 'manual_location' and nothing was fetched
C18_Witness ==
  /\ Returned1
  /\ UsesGps
  /\ GpsFailed
  /\ Cy.targetSchedule[1].destinationLocationId = <<"loc2">>
  /\ Cy.locationResult[1].errorType = <<"manual_location">>
  /\ screen.error # <<>>
  /\ screen.error[1].type = "manual_location"

\* the destination reference of the day in use is null or names no stored location
DestinationUnresolved ==
  /\ Cy.targetSchedule # <<>>
  /\ \/ Cy.targetSchedule[1].destinationLocationId = <<>>
     \/ Cy.targetSchedule[1].destinationLocationId[1] \notin LocationIds(settings)

\* C19: when the destination reference of the day in use does not resolve to
\* a stored location and the origin gave a result, the cycle does not fail:
\* only the origin's forecast is fetched, no error is set, and the combined
\* result carries the origin's decision and message alone.
C19_UnresolvedDestination ==
  (Returned1 /\ DestinationUnresolved /\ Cy.originResult # <<>>) =>
    /\ screen.error = <<>>
    /\ Cy.destinationResult = <<>>
    /\ Cy.fetched = <<Cy.originResult[1].location.areaCode>>
    /\ screen.combinedResult =
         <<[overallDecision |-> Cy.originResult[1].result.decision,
            overallMessage |-> Cy.originResult[1].result.message,
            origin |-> Cy.originResult,
            destination |-> <<>>]>>

\* the destination was deleted from the stored locations; the origin alone
\* gives 'required'
C19_Witness ==
  /\ Returned1
  /\ Cy.targetSchedule # <<>>
  /\ Cy.targetSchedule[1].destinationLocationId = <<"gone">>
  /\ Cy.originResult # <<>>
  /\ Cy.originResult[1].result.decision = "required"
  /\ screen.combinedResult # <<>>
  /\ screen.combinedResult[1].overallDecision = "required"
  /\ screen.combinedResult[1].destination = <<>>

\* ------------------------------------------------------------------------
\* Properties of overlapping fetch cycles (specification SpecOverlap)
\* ------------------------------------------------------------------------
BothReturned == cycles[1].pc = "done" /\ cycles[2].pc = "done"

\* the cycle that returned last
LastReturned == screen.finished[Len(screen.finished)]

ReturnsOf(c) == { i \in 1..Len(screen.finished) : screen.finished[i] = c }

LegacySettings ==
  { [locations |-> StoredLocations, weeklySchedule |-> <<>>,
     umbrellaCriteria |-> DEFAULT_CRITERIA,
     originLocationId |-> origin, destinationLocationId |-> dest,
     defaultOutingStart |-> start, defaultOutingEnd |-> end]
    : origin \in {<<>>, <<"loc1">>}, dest \in {<<>>, <<"loc2">>},
      start \in {<<>>, <<Time(8, 30)>>}, end \in {<<>>, <<Time(17, 15)>>} }

\* a night outing from loc2 to loc1, enabled
NightDay == DaySchedule(TRUE, <<"loc2">>, <<"loc1">>, Time(22, 0), Time(2, 0))

\* weekly schedules that lack some weekdays
PartialWeeklySchedules ==
  { [d \in Days |-> IF d \in present THEN <<NightDay>> ELSE <<>>]
    : present \in {{}, {0}, {6}, {1, 3}, {0, 2, 4, 5, 6}} }

PartialSettings ==
  { SavedSettings(StoredLocations, <<w>>, <<"loc1">>, <<>>) : w \in PartialWeeklySchedules }

\* settings of the current format: every weekday has an entry
FullSettings == { s \in CycleSettings : s.weeklySchedule # <<>> }

InitStorage ==
  /\ asyncStorage \in {<<>>} \cup { saveSettings(s) : s \in LegacySettings \cup PartialSettings }
  /\ lastOp = <<>>
  /\ IdleWeather
  /\ IdleCombined
  /\ IdleSchedule
  /\ IdleCache
  /\ IdleCycle
  /\ IdleEdit
  /\ IdleNotification

StorageFrame ==
  UNCHANGED <<weatherVars, combinedVars, scheduleVars, cacheVars, cycleVars, editVars,
              notificationVars>>

\* saveSettings(s)
SaveSettings(s) ==
  /\ asyncStorage' = saveSettings(s)
  /\ lastOp' = <<[op |-> "save", settings |-> s]>>
  /\ StorageFrame

\* loadSettings()
LoadSettings ==
  /\ lastOp' = <<[op |-> "load", item |-> asyncStorage,
                  saved |-> IF lastOp # <<>> /\ lastOp[1].op = "save"
                            THEN <<lastOp[1].settings>> ELSE <<>>,
                  result |-> loadSettingsFrom(asyncStorage)]>>
  /\ UNCHANGED asyncStorage
  /\ StorageFrame

NextStorage ==
  \/ \E s \in FullSettings : SaveSettings(s)
  \/ LoadSettings

SpecStorage == InitStorage /\ [][NextStorage]_vars

\* ------------------------------------------------------------------------
\* Properties of the settings storage (specification SpecStorage)
\* ------------------------------------------------------------------------
LoadedItem == lastOp # <<>> /\ lastOp[1].op = "load" /\ lastOp[1].item # <<>>
TheItem == lastOp[1].item[1]
LoadResult == lastOp[1].result
LoadedDay(d) == LoadResult.weeklySchedule[1][d]

\* C21: loading stored settings that have no weekly schedule gives one whose
\* Monday..Friday are enabled and Sunday and Saturday disabled, every day
\* with the old origin, destination, start and end (null, null, 09:00 and
\* 18:00 where the old value is absent); when a weekly schedule is stored,
\* each stored day is returned as stored.
C21_Migration ==
  LoadedItem =>
    /\ LoadResult.weeklySchedule # <<>>
    /\ DOMAIN LoadResult.weeklySchedule[1] = Days
    /\ IF TheItem.weeklySchedule = <<>>
       THEN \A d \in Days :
              LoadedDay(d) =
                <<DaySchedule(d \in 1..5, TheItem.originLocationId,
                              TheItem.destinationLocationId,
                              IF TheItem.defaultOutingStart = <<>> THEN Time(9, 0)
                              ELSE TheItem.defaultOutingStart[1],
                              IF TheItem.defaultOutingEnd = <<>> THEN Time(18, 0)
                              ELSE TheItem.defaultOutingEnd[1])>>
       ELSE \A i \in 1..Len(TheItem.weeklySchedule[1]) :
              \E d \in Days :
                /\ ToString(d) = TheItem.weeklySchedule[1][i][1]
                /\ LoadedDay(d) = <<TheItem.weeklySchedule[1][i][2]>>

\* legacy settings with an origin and a start but no end are loaded
C21_Witness ==
  /\ LoadedItem
  /\ TheItem.weeklySchedule = <<>>
  /\ TheItem.originLocationId = <<"loc1">>
  /\ TheItem.defaultOutingStart = <<Time(8, 30)>>
  /\ TheItem.defaultOutingEnd = <<>>
  /\ LoadedDay(6) = <<DaySchedule(FALSE, <<"loc1">>, TheItem.destinationLocationId,
                                    Time(8, 30), Time(18, 0))>>

LoadedAfterSave == lastOp # <<>> /\ lastOp[1].op = "load" /\ lastOp[1].saved # <<>>
TheSaved == lastOp[1].saved[1]

\* C22: for settings whose weekly schedule has all 7 days, saveSettings
\* followed by loadSettings returns a weekly schedule in which each day's
\* enabled flag, origin, destination, outingStart and outingEnd equal the
\* saved ones.
C22_RoundTrip ==
  LoadedAfterSave =>
    \A d \in Days :
      /\ LoadedDay(d) # <<>>
      /\ LoadedDay(d)[1].enabled = TheSaved.weeklySchedule[1][d][1].enabled
      /\ LoadedDay(d)[1].originLocationId = TheSaved.weeklySchedule[1][d][1].originLocationId
      /\ LoadedDay(d)[1].destinationLocationId =
           TheSaved.weeklySchedule[1][d][1].destinationLocationId
      /\ LoadedDay(d)[1].outingStart = TheSaved.weeklySchedule[1][d][1].outingStart
      /\ LoadedDay(d)[1].outingEnd = TheSaved.weeklySchedule[1][d][1].outingEnd

\* a schedule with a night outing on Saturday, a disabled Friday and
\* references that differ from the defaults comes back
C22_Witness ==
  /\ LoadedAfterSave
  /\ TheSaved.weeklySchedule[1][6][1].outingStart = Time(22, 0)
  /\ TheSaved.weeklySchedule[1][6][1].originLocationId = <<"loc1">>
  /\ ~TheSaved.weeklySchedule[1][5][1].enabled
  /\ LoadedDay(6) = TheSaved.weeklySchedule[1][6]
  /\ LoadedDay(5) = TheSaved.weeklySchedule[1][5]

\* ------------------------------------------------------------------------
\* A session of the settings screen over the settings item
\*
\* settings is the state of the screen (DEFAULT_SETTINGS until the mount
\* effect has loaded the item); every handler sets it and saves it. lastOp
\* is the last operation with the settings before it.
\* ------------------------------------------------------------------------
\* the days the user selects in a session
SessionDays == {0, 3}

\* the time the user picks
SessionTimes == {Time(7, 5)}

SessionItems ==
  {<<>>}
  \cup { saveSettings(s) : s \in { l \in LegacySettings : l.defaultOutingStart # <<>> /\ l.defaultOutingEnd = <<>> } }
  \cup { saveSettings(s) : s \in PartialSettings }
  \cup { saveSettings(SavedSettings(StoredLocations, <<[d \in Days |-> <<NightDay>>]>>,
                                    <<>>, <<>>)) }

\* Date.now().toString(): an id no stored location has
NewLocationIds(s) == {"loc3"} \ LocationIds(s)

InitSession ==
  /\ settings = DEFAULT_SETTINGS
  /\ now = [day |-> 0]
  /\ scheduleResult = <<>>
  /\ asyncStorage \in SessionItems
  /\ lastOp = <<>>
  /\ IdleEdit
  /\ IdleWeather
  /\ IdleCombined
  /\ IdleCache
  /\ IdleCycle
  /\ IdleNotification

Op(op, selectedDay, value) ==
  <<[op |-> op, day |-> selectedDay, value |-> value, before |-> settings]>>

\* the mount effect: loadSettings().then(setSettings)
MountLoad ==
  /\ settings' = loadSettingsFrom(asyncStorage)
  /\ lastOp' = Op("load", 0, FALSE)
  /\ UNCHANGED <<now, scheduleResult, asyncStorage, editVars>>
  /\ UNCHANGED <<weatherVars, combinedVars, cacheVars, cycleVars, notificationVars>>

HandleDayEnabledToggle(selectedDay, enabled) ==
  /\ settings' = handleDayEnabledToggle(settings, selectedDay, enabled)
  /\ Edited
  /\ removal' = <<>>
  /\ lastOp' = Op("toggle", selectedDay, enabled)

HandleDayTimeChange(selectedDay, type, hour, minute) ==
  /\ settings' = handleDayTimeChange(settings, selectedDay, type, hour, minute)
  /\ Edited
  /\ removal' = <<>>
  /\ lastOp' = Op("time", selectedDay, FALSE)

ApplyToWeekdays(selectedDay) ==
  /\ settings' = applyToWeekdays(settings, selectedDay)
  /\ Edited
  /\ removal' = <<>>
  /\ lastOp' = Op("apply", selectedDay, FALSE)

HandleSelectLocation(locationPickerMode, selectedDay, id) ==
  /\ settings' = handleSelectLocation(settings, locationPickerMode, selectedDay,
                                      Location(id, "Park", C130000, FALSE))
  /\ Edited
  /\ removal' = <<>>
  /\ lastOp' = Op("select", selectedDay, FALSE)

NextSession ==
  \/ MountLoad
  \/ \E selectedDay \in SessionDays : \E enabled \in BOOLEAN :
       HandleDayEnabledToggle(selectedDay, enabled)
  \/ \E selectedDay \in SessionDays : \E locationId \in PickerChoices(settings) :
       HandleDayOriginChange(selectedDay, locationId)
  \/ \E selectedDay \in SessionDays : \E locationId \in PickerChoices(settings) :
       HandleDayDestinationChange(selectedDay, locationId)
  \/ \E selectedDay \in SessionDays : \E type \in {"start", "end"} : \E t \in SessionTimes :
       HandleDayTimeChange(selectedDay, type, t.hour, t.minute)
  \/ \E selectedDay \in SessionDays : ApplyToWeekdays(selectedDay)
  \/ \E locationPickerMode \in {"add", "origin", "destination"} :
       \E selectedDay \in SessionDays : \E id \in NewLocationIds(settings) :
         HandleSelectLocation(locationPickerMode, selectedDay, id)
  \/ \E locationId \in LocationIds(settings) : HandleRemoveLocation(locationId)

SpecSession == InitSession /\ [][NextSession]_vars

\* ------------------------------------------------------------------------
\* Properties of the settings session (specification SpecSession)
\* ------------------------------------------------------------------------
SevenSlots(s) ==
  /\ s.weeklySchedule # <<>>
  /\ DOMAIN s.weeklySchedule[1] = 0..6
  /\ \A d \in 0..6 : s.weeklySchedule[1][d] # <<>>

Disabled == lastOp # <<>> /\ lastOp[1].op = "toggle" /\ ~lastOp[1].value
Before == lastOp[1].before

\* C23: after every sequence of settings operations (load with or without
\* migration, load of a stored schedule that lacks days, enable toggle,
\* origin, destination and time change, apply-to-weekdays, location add and
\* delete, save and reload) the weekly schedule has exactly the 7 slots
\* 0..6, in the screen and in what a reload gives; disabling a day changes
\* only that day's enabled flag and deletes nothing.
C23_SevenSlots ==
  /\ SevenSlots(settings)
  /\ SevenSlots(loadSettingsFrom(asyncStorage))
  /\ Disabled =>
       /\ SevenSlots(Before)
       /\ settings =
            [Before EXCEPT !.weeklySchedule[1][lastOp[1].day][1].enabled = FALSE]
       /\ asyncStorage = <<JSONstringify(settings)>>

\* after a stored schedule lacking days was loaded and edited, the user
\* disables an enabled Wednesday that has its own references and times
C23_Witness ==
  /\ Disabled
  /\ edits >= 3
  /\ lastOp[1].day = 3
  /\ Before.weeklySchedule[1][3] = <<NightDay>>
  /\ Before.weeklySchedule[1][0] # DEFAULT_WEEKLY_SCHEDULE[0]
  /\ settings.weeklySchedule[1][3] = <<[NightDay EXCEPT !.enabled = FALSE]>>

\* ------------------------------------------------------------------------
\* Area selection (pickAreaByCode) over lists of areas
\*
\* Here lastOp is the last call with its arguments and its result.
\* ------------------------------------------------------------------------
\* longest list of areas
MaxAreas == 3

PickCodes == {C130000, C130010, C140000, C270000}

\* lists of 1..MaxAreas areas, each area named after its position
AreaLists ==
  UNION { { [i \in 1..n |-> Area(ToString(i), codes[i])] : codes \in [1..n -> PickCodes] }
          : n \in 1..MaxAreas }

InitPick ==
  /\ lastOp = <<>>
  /\ asyncStorage = <<>>
  /\ IdleWeather
  /\ IdleCombined
  /\ IdleSchedule
  /\ IdleCache
  /\ IdleCycle
  /\ IdleEdit
  /\ IdleNotification

\* pickAreaByCode(areas, areaCode)
PickAreaByCode(areas, areaCode) ==
  /\ lastOp' = <<[op |-> "pickAreaByCode", areas |-> areas, areaCode |-> areaCode,
                  result |-> pickAreaByCode(areas, areaCode)]>>
  /\ UNCHANGED asyncStorage
  /\ StorageFrame

NextPick == \E areas \in AreaLists : \E areaCode \in PickCodes : PickAreaByCode(areas, areaCode)

SpecPick == InitPick /\ [][NextPick]_vars

\* ------------------------------------------------------------------------
\* Properties of the area selection (specification SpecPick)
\* ------------------------------------------------------------------------
Picked == lastOp # <<>> /\ lastOp[1].op = "pickAreaByCode"
PickAreas == lastOp[1].areas
ExactMatches == { i \in 1..Len(PickAreas) : PickAreas[i].area.code = lastOp[1].areaCode }
PrefixMatches ==
  { i \in 1..Len(PickAreas) :
      /\ PickAreas[i].area.code[1] = lastOp[1].areaCode[1]
      /\ PickAreas[i].area.code[2] = lastOp[1].areaCode[2] }
Least(indices) == CHOOSE i \in indices : \A j \in indices : i <= j

\* C24: over a non-empty list the selection always returns an area: the
\* first area whose code equals the requested code if there is one, else
\* the first area whose code starts with the first 2 characters of the
\* requested code if there is one, else the first area; an exact match wins
\* over a prefix match earlier in the list; areas [130010, 140000] with
\* request 130000 select 130010.
C24_AreaSelection ==
  Picked =>
    /\ lastOp[1].result # <<>>
    /\ lastOp[1].result[1] =
         IF ExactMatches # {} THEN PickAreas[Least(ExactMatches)]
         ELSE IF PrefixMatches # {} THEN PickAreas[Least(PrefixMatches)]
         ELSE PickAreas[1]
    /\ ( /\ Len(PickAreas) = 2
         /\ PickAreas[1].area.code = C130010
         /\ PickAreas[2].area.code = C140000
         /\ lastOp[1].areaCode = C130000 ) => lastOp[1].result[1].area.code = C130010

\* an exact match behind a prefix match and a second exact match
C24_Witness ==
  /\ Picked
  /\ Len(PickAreas) = 3
  /\ PickAreas[1].area.code = C130010
  /\ PickAreas[2].area.code = C130000
  /\ PickAreas[3].area.code = C130000
  /\ lastOp[1].areaCode = C130000
  /\ lastOp[1].result = <<PickAreas[2]>>

\* ------------------------------------------------------------------------
\* The sampler's hour lookups (popByHour, precipByHour) and the nearest-hour
\* scan, over series of timestamps
\*
\* Here lastOp is the last call: the lookups built from a rain-probability
\* series and a precipitation series, then the sample taken from them for a
\* time point.
\* ------------------------------------------------------------------------
\* longest rain-probability series
MaxStamps == 3

\* 09:00, 15:00 and 21:00 of the first day, 00:00 and 09:00 of the next
LookupStamps == {9, 15, 21, 24, 33}

PopTimeDefines == UNION { [1..n -> LookupStamps] : n \in 0..MaxStamps }

\* the i-th value of a series: i * step
Numbered(n, step) == [i \in 1..n |-> Num(i * step)]

\* the precipitation series: none, the timestamps of the rain-probability
\* series, or timestamps of its own
PrecipitationSeries(popTimeDefines) ==
  { <<>>, <<[timeDefines |-> popTimeDefines, areas |-> <<Target>>]>>,
    <<[timeDefines |-> <<10, 15>>, areas |-> <<Target>>]>>,
    <<[timeDefines |-> <<33, 9>>, areas |-> <<Target>>]>> }

\* time points: 00:00, 09:00, 12:00, 12:30, 23:59
LookupMinutes == {0, 540, 720, 750, 1439}

InitLookup == InitPick

\* the lookups extractHourlyForecasts builds from the two series, once per call
BuildLookups(popTimeDefines, pops, precipitationSeries, precipitations) ==
  LET precipitationByTime == buildValueMap(precipitationSeries, precipitations)
      maps == BuildByHour(popTimeDefines, pops, precipitationByTime, 1,
                [popByHour |-> <<>>, precipByHour |-> <<>>])
  IN /\ lastOp = <<>>
     /\ lastOp' = <<[op |-> "lookups", popTimeDefines |-> popTimeDefines, pops |-> pops,
                     precipitationSeries |-> precipitationSeries,
                     precipitations |-> precipitations,
                     popByHour |-> maps.popByHour, precipByHour |-> maps.precipByHour,
                     minutes |-> 0, sample |-> <<>>]>>
     /\ UNCHANGED asyncStorage
     /\ StorageFrame

\* the sample of one time point
SampleAt(minutes) ==
  /\ lastOp # <<>>
  /\ lastOp[1].op \in {"lookups", "sample"}
  /\ lastOp' = <<[lastOp[1] EXCEPT
                    !.op = "sample", !.minutes = minutes,
                    !.sample = <<Sample(minutes, Target, lastOp[1].popByHour,
                                        lastOp[1].precipByHour)>>]>>
  /\ UNCHANGED asyncStorage
  /\ StorageFrame

NextLookup ==
  \/ \E popTimeDefines \in PopTimeDefines :
       \E precipitationSeries \in PrecipitationSeries(popTimeDefines) :
         BuildLookups(popTimeDefines, Numbered(Len(popTimeDefines), 100),
                      precipitationSeries,
                      IF precipitationSeries = <<>> THEN <<>>
                      ELSE Numbered(Len(precipitationSeries[1].timeDefines), 10))
  \/ \E minutes \in LookupMinutes : SampleAt(minutes)

SpecLookup == InitLookup /\ [][NextLookup]_vars

\* ------------------------------------------------------------------------
\* Properties of the hour lookups (specification SpecLookup)
\* ------------------------------------------------------------------------
Built == lastOp # <<>> /\ lastOp[1].op \in {"lookups", "sample"}
Lk == lastOp[1]

\* the first position of a series whose timestamp has the hour h
FirstWithHour(timeDefines, h) ==
  CHOOSE i \in 1..Len(timeDefines) :
    /\ timeDefines[i] % 24 = h
    /\ \A j \in 1..(i - 1) : timeDefines[j] % 24 # h

HoursOf(timeDefines) == { timeDefines[i] % 24 : i \in 1..Len(timeDefines) }

\* C25: the hour lookup keeps, for each hour-of-day, the value of the first
\* timestamp of the rain-probability series that has that hour; a later
\* timestamp with the same hour never replaces it, so the lookup has at
\* most one entry per hour and its entries are in first-occurrence order.
C25_FirstPerHour ==
  Built =>
    /\ { Lk.popByHour[i][1] : i \in 1..Len(Lk.popByHour) } = HoursOf(Lk.popTimeDefines)
    /\ \A i, j \in 1..Len(Lk.popByHour) :
         i < j =>
           /\ Lk.popByHour[i][1] # Lk.popByHour[j][1]
           /\ FirstWithHour(Lk.popTimeDefines, Lk.popByHour[i][1])
                < FirstWithHour(Lk.popTimeDefines, Lk.popByHour[j][1])
    /\ \A i \in 1..Len(Lk.popByHour) :
         Lk.popByHour[i][2] =
           Lk.pops[FirstWithHour(Lk.popTimeDefines, Lk.popByHour[i][1])].v

\* 09:00 of the next day comes after 09:00 and 15:00: its value is not kept
C25_Witness ==
  /\ Built
  /\ Lk.popTimeDefines = <<9, 15, 33>>
  /\ Lk.popByHour = <<<<9, 100>>, <<15, 200>>>>

Sampled1 == lastOp # <<>> /\ lastOp[1].op = "sample"
SampleHour == Lk.minutes \div 60
Distance(i) ==
  IF Lk.popByHour[i][1] >= SampleHour THEN Lk.popByHour[i][1] - SampleHour
  ELSE SampleHour - Lk.popByHour[i][1]

\* the entry nearest to the time point's hour, the first one on a tie
Nearest ==
  CHOOSE i \in 1..Len(Lk.popByHour) :
    \A j \in 1..Len(Lk.popByHour) :
      Distance(i) < Distance(j) \/ (Distance(i) = Distance(j) /\ i <= j)

\* C26: the sampled probability and precipitation of a time point are those
\* of the lookup hour h minimising |h - hour of the time point| (plain
\* difference on 0..23); among hours with the same minimal difference the
\* one inserted first is taken; with an empty lookup both values are 0.
C26_NearestHour ==
  Sampled1 =>
    IF Len(Lk.popByHour) = 0
    THEN Lk.sample[1].pop = 0 /\ Lk.sample[1].precipitation = 0
    ELSE /\ Lk.sample[1].pop = Lk.popByHour[Nearest][2]
         /\ \E k \in 1..Len(Lk.precipByHour) :
              /\ Lk.precipByHour[k][1] = Lk.popByHour[Nearest][1]
              /\ Lk.sample[1].precipitation = Lk.precipByHour[k][2]

\* 12:00 is as far from 15:00 as from 09:00, and 15:00 was inserted first;
\* at 23:59 the hour 0 is 23 away and 21:00 is taken
C26_Witness ==
  /\ Sampled1
  /\ \/ /\ Lk.popTimeDefines = <<15, 9>>
        /\ Lk.minutes = 720
        /\ Lk.sample[1].pop = 100
     \/ /\ Lk.popTimeDefines = <<24, 21>>
        /\ Lk.minutes = 1439
        /\ Lk.sample[1].pop = 200

\* C27: the hour-to-precipitation lookup is built from the precipitation
\* series' own timestamps: for each of them the hour is taken and the first
\* value seen for that hour is kept, whether or not the rain-probability
\* series contains the same timestamp.
C27_OwnTimestamps ==
  (Built /\ Lk.precipitationSeries # <<>>) =>
    \A h \in HoursOf(Lk.precipitationSeries[1].timeDefines) :
      \E k \in 1..Len(Lk.precipByHour) :
        /\ Lk.precipByHour[k][1] = h
        /\ Lk.precipByHour[k][2] =
             Lk.precipitations[FirstWithHour(Lk.precipitationSeries[1].timeDefines, h)].v

\* ------------------------------------------------------------------------
\* Notifications: the received-listener of the app and
\* sendUmbrellaCheckNotification
\*
\* A notification is the record of its data type and its trigger. reminder
\* is the record [inbox, pending, runs, posted]: the notifications delivered
\* to the running app and not yet handed to the listener, the number of
\* sendUmbrellaCheckNotification runs started and not finished, the number
\* of runs started, the immediate notifications posted. A notification
\* posted with trigger null is delivered at once to the running app.
\* ------------------------------------------------------------------------
\* largest number of sendUmbrellaCheckNotification runs
MaxRuns == 3

Notification(type, trigger) == [type |-> type, trigger |-> trigger]

\* the outcome of one part (origin or destination) of the check: the
\* location's result, nothing, or an exception that leaves the outer try
Part(thrown, result) == [thrown |-> thrown, result |-> result]

\* the part of a location whose forecast request ended as `fetch`:
\* determineUmbrella over the forecast, or the exception of the request
DecidePart(fetch, location, outing, crit) ==
  IF fetch.error # <<>> THEN Part(TRUE, <<>>)
  ELSE Part(FALSE, <<[location |-> location,
                      result |-> determineUmbrella(fetch.value[1], outing, crit)]>>)

\* fetchWeatherForecast + determineUmbrella for a location
CheckLocation(location, outing, crit, net) ==
  DecidePart(fetchWeatherForecast(location.areaCode, <<>>, 0, net), location, outing, crit)

\* the try block around the check of the position: an exception inside it
\* is logged and leaves the origin without a result
Caught(part) == IF part.thrown THEN Part(FALSE, <<>>) ELSE part

\* the origin of the check: the stored location, or the position inside a
\* try block of its own
CheckOrigin(s, todaySchedule, outing, env) ==
  IF todaySchedule.originLocationId # <<>>
  THEN LET originLocation == FindLocation(s.locations, todaySchedule.originLocationId)
       IN IF originLocation # <<>>
          THEN CheckLocation(originLocation[1], outing, s.umbrellaCriteria, env.originNet)
          ELSE Part(FALSE, <<>>)
  ELSE LET locationResult == getCurrentLocation(env.gps)
       IN IF locationResult.success /\ locationResult.areaCode # <<>>
          THEN Caught(CheckLocation(Location("gps", locationResult.areaName,
                                             locationResult.areaCode[1], TRUE),
                                    outing, s.umbrellaCriteria, env.originNet))
          ELSE Part(FALSE, <<>>)

CheckDestination(s, todaySchedule, outing, env) ==
  IF todaySchedule.destinationLocationId # <<>>
  THEN LET destLocation == FindLocation(s.locations, todaySchedule.destinationLocationId)
       IN IF destLocation # <<>>
          THEN CheckLocation(destLocation[1], outing, s.umbrellaCriteria, env.destinationNet)
          ELSE Part(FALSE, <<>>)
  ELSE Part(FALSE, <<>>)

\* the notifications posted once both parts of the check have ended: the
\* fallback of the outer catch, the fallback of no result, or the decision
Posted(origin, destination) ==
  IF origin.thrown \/ destination.thrown
  THEN <<Notification("daily_check", "null")>>
  ELSE IF origin.result = <<>> /\ destination.result = <<>>
       THEN <<Notification("daily_check", "null")>>
       ELSE <<Notification("umbrella_result", "null")>>

\* the check of today's schedule todaySchedule
CheckToday(s, todaySchedule, outing, env) ==
  Posted(CheckOrigin(s, todaySchedule, outing, env),
         CheckDestination(s, todaySchedule, outing, env))

\* sendUmbrellaCheckNotification() over the saved settings, at the clock
\* `clock`, in the environment env: the notifications it posts
sendUmbrellaCheckNotification(saved, clock, env) ==
  LET s == loadSettings(saved)
      todaySchedule == getTodaySchedule(s, clock)
  IN IF todaySchedule = <<>> THEN <<>>
     ELSE CheckToday(s, todaySchedule[1],
                     [start |-> todaySchedule[1].outingStart,
                      end |-> todaySchedule[1].outingEnd], env)

\* the callback of addNotificationReceivedListener: does the notification
\* start a check
StartsCheck(notification) == notification.type \in {"daily_check", "before_outing"}

\* ------------------------------------------------------------------------
\* Inputs, state and actions of a received reminder (specification
\* SpecReminder)
\* ------------------------------------------------------------------------
\* the position is denied, fails, or resolves to Tokyo
ReminderGps ==
  { GpsEnv(FALSE, <<>>, 0, "", <<>>),
    GpsEnv(TRUE, <<Thrown("Error", <<"Network", "request", "failed">>)>>, 0, "", <<>>),
    GpsEnv(TRUE, <<>>, 1, "Tokyo", <<C130000>>) }

\* the network answers with rain or fails
ReminderNets ==
  { Responds(TRUE, RainyPayload), Throws(Thrown("Error", <<"Network", "request", "failed">>)) }

ReminderEnvs == [gps : ReminderGps, originNet : ReminderNets, destinationNet : ReminderNets]

NewReminder == [inbox |-> <<>>, pending |-> 0, runs |-> 0, posted |-> <<>>]

InitReminder ==
  /\ settings \in CycleSettings
  /\ now \in [day : {5, 6}, minutes : {600}]
  /\ scheduleResult = <<>>
  /\ reminder = NewReminder
  /\ scheduled = <<>>
  /\ notificationPermission = TRUE
  /\ syncs = <<>>
  /\ IdleWeather
  /\ IdleCombined
  /\ IdleCache
  /\ IdleCycle
  /\ IdleEdit
  /\ IdleStorage

ReminderFrame ==
  /\ UNCHANGED <<scheduled, notificationPermission, syncs>>
  /\ UNCHANGED <<weatherVars, combinedVars, scheduleVars, cacheVars, cycleVars, editVars,
                 storageVars>>

\* a scheduled reminder fires while the app is running
ReminderFires(type) ==
  /\ reminder = NewReminder
  /\ reminder' = [reminder EXCEPT !.inbox = <<Notification(type, "scheduled")>>]
  /\ ReminderFrame

\* the received-listener is called with the next delivered notification
NotificationReceived ==
  /\ Len(reminder.inbox) > 0
  /\ reminder.runs < MaxRuns
  /\ reminder' =
       IF StartsCheck(reminder.inbox[1])
       THEN [reminder EXCEPT !.inbox = Tail(@), !.pending = @ + 1, !.runs = @ + 1]
       ELSE [reminder EXCEPT !.inbox = Tail(@)]
  /\ ReminderFrame

\* a started sendUmbrellaCheckNotification() runs to its end
SendUmbrellaCheckNotification(env) ==
  /\ reminder.pending > 0
  /\ LET posts == sendUmbrellaCheckNotification(settings, now, env)
     IN reminder' = [reminder EXCEPT !.pending = @ - 1,
                                     !.posted = @ \o posts,
                                     !.inbox = @ \o posts]
  /\ ReminderFrame

NextReminder ==
  \/ \E type \in {"daily_check", "before_outing"} : ReminderFires(type)
  \/ NotificationReceived
  \/ \E env \in ReminderEnvs : SendUmbrellaCheckNotification(env)

SpecReminder == InitReminder /\ [][NextReminder]_vars

\* ------------------------------------------------------------------------
\* Properties of a received reminder (specification SpecReminder)
\* ------------------------------------------------------------------------
\* C28: handling one received scheduled reminder ('daily_check' or
\* 'before_outing') terminates: at most one immediate notification is
\* posted and, whatever the outcome (a decision, no origin and no
\* destination result, the error fallback), the posted notification does
\* not make the received-listener run sendUmbrellaCheckNotification again.
C28_NoRerun ==
  /\ reminder.runs <= 1
  /\ Len(reminder.posted) <= 1

\* ------------------------------------------------------------------------
\* Scheduled notifications
\*
\* scheduled is the record [notifications, issued]: the notifications the
\* platform holds, in the order they were scheduled, and the number of
\* identifiers issued so far. A scheduled notification is the record
\* [identifier, type, dayOfWeek, trigger]; a weekly trigger is
\* [type, weekday, hour, minute] with weekday 1 = Sunday .. 7 = Saturday, a
\* daily trigger has weekday 0. Here settings is the stored settings record
\* [notificationEnabled, notificationTime, notificationLeadTime,
\* beforeOutingNotificationEnabled, weeklySchedule].
\* ------------------------------------------------------------------------
\* largest number of identifiers the platform issues before the calls stop
MaxIdentifiers == 6

Trigger(type, weekday, hour, minute) ==
  [type |-> type, weekday |-> weekday, hour |-> hour, minute |-> minute]

\* Notifications.scheduleNotificationAsync
scheduleNotificationAsync(store, type, dayOfWeek, trigger) ==
  [notifications |->
     Append(store.notifications,
            [identifier |-> store.issued + 1, type |-> type, dayOfWeek |-> dayOfWeek,
             trigger |-> trigger]),
   issued |-> store.issued + 1]

RECURSIVE WithoutIdentifier(_, _)
WithoutIdentifier(notifications, identifier) ==
  IF Len(notifications) = 0 THEN <<>>
  ELSE IF notifications[1].identifier = identifier
       THEN WithoutIdentifier(Tail(notifications), identifier)
       ELSE <<notifications[1]>> \o WithoutIdentifier(Tail(notifications), identifier)

\* Notifications.cancelScheduledNotificationAsync
cancelScheduledNotificationAsync(store, identifier) ==
  [store EXCEPT !.notifications = WithoutIdentifier(@, identifier)]

\* the loop of cancelFixedNotifications / cancelBeforeOutingNotifications
\* over the list it read
RECURSIVE CancelOfType(_, _, _)
CancelOfType(store, list, type) ==
  IF Len(list) = 0 THEN store
  ELSE CancelOfType(IF list[1].type = type
                    THEN cancelScheduledNotificationAsync(store, list[1].identifier)
                    ELSE store,
                    Tail(list), type)

cancelBeforeOutingNotifications(store) ==
  CancelOfType(store, store.notifications, "before_outing")

\* while (notifyMinute < 0) { notifyMinute += 60; notifyHour -= 1; }
RECURSIVE Borrow(_, _)
Borrow(notifyHour, notifyMinute) ==
  IF notifyMinute < 0 THEN Borrow(notifyHour - 1, notifyMinute + 60)
  ELSE [hour |-> notifyHour, minute |-> notifyMinute]

\* the weekly trigger of the reminder before the outing of weekday `day`
BeforeOutingTrigger(day, schedule, leadTime) ==
  LET startHour == schedule.outingStart.hour
      startMinute == schedule.outingStart.minute
      borrowed == Borrow(startHour, startMinute - leadTime)
      notifyHour == IF borrowed.hour < 0 THEN borrowed.hour + 24 ELSE borrowed.hour
      weekday == day + 1
  IN Trigger("weekly", weekday, notifyHour, borrowed.minute)

\* the scheduling loop from weekday `day` on
RECURSIVE ScheduleFrom(_, _, _, _)
ScheduleFrom(store, s, leadTime, day) ==
  IF day > 6 THEN store
  ELSE LET schedule == s.weeklySchedule[1][day]
       IN ScheduleFrom(IF schedule = <<>> \/ ~schedule[1].enabled THEN store
                       ELSE scheduleNotificationAsync(store, "before_outing", day,
                              BeforeOutingTrigger(day, schedule[1], leadTime)),
                       s, leadTime, day + 1)

\* scheduleBeforeOutingNotifications(settings) over the platform's store
scheduleBeforeOutingNotifications(s, store) ==
  LET cancelled == cancelBeforeOutingNotifications(store)
  IN IF s.weeklySchedule = <<>> THEN cancelled
     ELSE ScheduleFrom(cancelled, s, OrElse(s.notificationLeadTime, 30), 0)

\* ------------------------------------------------------------------------
\* Inputs, state and action of the reminders before the outing
\* (specification SpecBeforeOuting)
\* ------------------------------------------------------------------------
NotificationSettings(notificationEnabled, notificationTime, notificationLeadTime,
                     beforeOutingNotificationEnabled, weeklySchedule) ==
  [notificationEnabled |-> notificationEnabled, notificationTime |-> notificationTime,
   notificationLeadTime |-> notificationLeadTime,
   beforeOutingNotificationEnabled |-> beforeOutingNotificationEnabled,
   weeklySchedule |-> weeklySchedule]

\* outing starts: midnight, shortly after it, in the small hours, at 09:00
OutingStarts == {Time(0, 0), Time(0, 15), Time(1, 20), Time(9, 0)}

\* lead times in minutes: not stored, or 15, 90
LeadTimes == {<<>>, <<15>>, <<90>>}

\* Sunday and Wednesday enabled or not with any of the starts, Monday
\* enabled at 09:00, the other days disabled
BeforeOutingSchedules ==
  { [d \in Days |->
       <<DaySchedule(IF d = 0 THEN sunday ELSE IF d = 3 THEN wednesday ELSE d = 1,
                     <<>>, <<>>,
                     IF d = 0 THEN sundayStart ELSE IF d = 3 THEN wednesdayStart
                     ELSE Time(9, 0),
                     Time(18, 0))>>]
    : sunday \in BOOLEAN, wednesday \in BOOLEAN,
      sundayStart \in OutingStarts, wednesdayStart \in OutingStarts }

\* what an earlier run left: nothing, or a daily reminder and an outdated
\* reminder before Friday's outing
EarlierScheduled ==
  { [notifications |-> <<>>, issued |-> 0],
    [notifications |->
       << [identifier |-> 1, type |-> "daily_check", dayOfWeek |-> 0,
           trigger |-> Trigger("daily", 0, 7, 0)],
          [identifier |-> 2, type |-> "before_outing", dayOfWeek |-> 5,
           trigger |-> Trigger("weekly", 6, 8, 30)] >>,
     issued |-> 2] }

InitBeforeOuting ==
  /\ settings \in { NotificationSettings(FALSE, Time(7, 0), leadTime, TRUE, <<w>>)
                    : leadTime \in LeadTimes, w \in BeforeOutingSchedules }
  /\ now = [day |-> 0]
  /\ scheduleResult = <<>>
  /\ scheduled \in EarlierScheduled
  /\ notificationPermission = TRUE
  /\ syncs = <<>>
  /\ reminder = <<>>
  /\ IdleWeather
  /\ IdleCombined
  /\ IdleCache
  /\ IdleCycle
  /\ IdleEdit
  /\ IdleStorage

\* scheduleBeforeOutingNotifications(settings)
ScheduleBeforeOutingNotifications ==
  /\ scheduled.issued < MaxIdentifiers
  /\ scheduled' = scheduleBeforeOutingNotifications(settings, scheduled)
  /\ UNCHANGED <<notificationPermission, syncs, reminder>>
  /\ UNCHANGED <<weatherVars, combinedVars, scheduleVars, cacheVars, cycleVars, editVars,
                 storageVars>>

NextBeforeOuting == ScheduleBeforeOutingNotifications

SpecBeforeOuting == InitBeforeOuting /\ [][NextBeforeOuting]_vars

\* ------------------------------------------------------------------------
\* Properties of the reminders before the outing (specification
\* SpecBeforeOuting)
\* ------------------------------------------------------------------------
\* some call has scheduled: the identifiers issued are past the earlier ones
ScheduledOnce ==
  \/ scheduled.issued > 2
  \/ scheduled.issued > 0 /\ scheduled.notifications[1].type = "before_outing"

LeadMinutes == IF settings.notificationLeadTime = <<>> THEN 30 ELSE settings.notificationLeadTime[1]

\* minutes from 00:00 of weekday d to the moment L minutes before its outing
BeforeStart(d) ==
  settings.weeklySchedule[1][d][1].outingStart.hour * 60
    + settings.weeklySchedule[1][d][1].outingStart.minute - LeadMinutes

\* a weekly reminder for weekday d on weekday w (0 = Sunday) at `minutes`
HasReminder(d, w, minutes) ==
  \E i \in 1..Len(scheduled.notifications) :
    /\ scheduled.notifications[i].type = "before_outing"
    /\ scheduled.notifications[i].dayOfWeek = d
    /\ scheduled.notifications[i].trigger =
         [type |-> "weekly", weekday |-> w + 1,
          hour |-> minutes \div 60, minute |-> minutes % 60]

\* C30: for every enabled weekday d with outing start s and lead time L a
\* weekly notification is scheduled that fires L minutes before d's outing
\* start: on weekday d at s - L when that is not before 00:00, and on the
\* preceding weekday at s - L + 24h when it is.
C30_FiresBeforeOuting ==
  ScheduledOnce =>
    \A d \in Days :
      settings.weeklySchedule[1][d][1].enabled =>
        IF BeforeStart(d) >= 0 THEN HasReminder(d, d, BeforeStart(d))
        ELSE HasReminder(d, (d + 6) % 7, BeforeStart(d) + 1440)

\* ------------------------------------------------------------------------
\* syncDailyNotificationWithSettings: calls that interleave at their awaits
\*
\* syncs[p] is the call p: its position pc, the settings it loaded, the
\* permission it was given, the rest of the list its cancel loop walks, the
\* weekday its scheduling loop is at, and whether its fixed-time part
\* cancelled a notification that is not a 'daily_check'.
\* ------------------------------------------------------------------------
\* number of calls of a run
MaxSyncs == 2

Syncs == 1..MaxSyncs

NewSync ==
  [pc |-> "idle", loaded |-> <<>>, hasPermission |-> FALSE, list |-> <<>>, day |-> 0,
   fixedCancelledOther |-> FALSE]

\* the type a cancel loop looks for
CancelType(pc) == IF pc = "cancelFixed" THEN "daily_check" ELSE "before_outing"

\* the rest of the list from the first notification of the type on
RECURSIVE FromFirstOfType(_, _)
FromFirstOfType(list, type) ==
  IF Len(list) = 0 THEN <<>>
  ELSE IF list[1].type = type THEN list
  ELSE FromFirstOfType(Tail(list), type)

\* the first weekday from `day` on that the scheduling loop does not skip,
\* 7 when there is none
RECURSIVE NextEnabledDay(_, _)
NextEnabledDay(s, day) ==
  IF day > 6 THEN 7
  ELSE IF s.weeklySchedule[1][day] # <<>> /\ s.weeklySchedule[1][day][1].enabled THEN day
  ELSE NextEnabledDay(s, day + 1)

\* the call after the scheduling loop has reached weekday `day`
AtDay(sy, day) ==
  LET next == NextEnabledDay(sy.loaded[1], day)
  IN IF next > 6 THEN [sy EXCEPT !.pc = "done"]
     ELSE [sy EXCEPT !.pc = "scheduleBeforeOuting", !.day = next]

\* the call after cancelFixedNotifications() has returned
AfterCancelFixed(sy) ==
  IF sy.loaded[1].notificationEnabled /\ sy.hasPermission
  THEN [sy EXCEPT !.pc = "scheduleDaily"]
  ELSE [sy EXCEPT !.pc = "cancelBeforeOuting"]

\* the call after cancelBeforeOutingNotifications() has returned
AfterCancelBeforeOuting(sy) ==
  IF sy.loaded[1].beforeOutingNotificationEnabled /\ sy.hasPermission
  THEN IF sy.loaded[1].weeklySchedule = <<>> THEN [sy EXCEPT !.pc = "done"]
       ELSE AtDay(sy, 0)
  ELSE [sy EXCEPT !.pc = "done"]

\* the call whose cancel loop has the list `list` left
InCancelLoop(sy, list) ==
  LET rest == FromFirstOfType(list, CancelType(sy.pc))
  IN IF Len(rest) > 0 THEN [sy EXCEPT !.list = rest, !.pc = @ \o "Loop"]
     ELSE IF sy.pc = "cancelFixed" THEN AfterCancelFixed([sy EXCEPT !.list = <<>>])
     ELSE AfterCancelBeforeOuting([sy EXCEPT !.list = <<>>])

\* ------------------------------------------------------------------------
\* Inputs, state and actions of the synchronisation (specification SpecSync)
\* ------------------------------------------------------------------------
\* only Monday has an outing
MondayOnly ==
  [d \in Days |-> <<DaySchedule(d = 1, <<>>, <<>>, Time(9, 0), Time(18, 0))>>]

SyncSettings ==
  { NotificationSettings(notificationEnabled, Time(7, 0), <<>>,
                         beforeOutingNotificationEnabled, <<MondayOnly>>)
    : notificationEnabled \in BOOLEAN, beforeOutingNotificationEnabled \in BOOLEAN }

\* the app starts: the mount effect has called the synchronisation
InitSync ==
  /\ settings \in SyncSettings
  /\ now = [day |-> 0]
  /\ scheduleResult = <<>>
  /\ scheduled \in EarlierScheduled
  /\ notificationPermission \in BOOLEAN
  /\ syncs = [p \in Syncs |-> IF p = 1 THEN [NewSync EXCEPT !.pc = "loadSettings"]
                              ELSE NewSync]
  /\ reminder = <<>>
  /\ IdleWeather
  /\ IdleCombined
  /\ IdleCache
  /\ IdleCycle
  /\ IdleEdit
  /\ IdleStorage

SyncFrame ==
  /\ UNCHANGED <<notificationPermission, reminder, now, scheduleResult>>
  /\ UNCHANGED <<weatherVars, combinedVars, cacheVars, cycleVars, editVars, storageVars>>

\* the next call that has not been issued
NextCall == CHOOSE p \in Syncs : syncs[p].pc = "idle" /\ \A q \in 1..(p - 1) : syncs[q].pc # "idle"

\* the settings are saved and the synchronisation is called
SavedAndSynced(newSettings) ==
  /\ \E p \in Syncs : syncs[p].pc = "idle"
  /\ settings' = newSettings
  /\ syncs' = [syncs EXCEPT ![NextCall].pc = "loadSettings"]
  /\ UNCHANGED scheduled
  /\ SyncFrame

\* the user switches the fixed-time notification; switching it on without
\* the permission changes nothing
HandleNotificationToggle(enabled) ==
  /\ enabled => notificationPermission
  /\ SavedAndSynced([settings EXCEPT !.notificationEnabled = enabled])

\* the user picks the time of the fixed-time notification
HandleNotificationTimeChange(hour, minute) ==
  SavedAndSynced([settings EXCEPT !.notificationTime = Time(hour, minute)])

SyncStep(p, sy) ==
  /\ syncs' = [syncs EXCEPT ![p] = sy]
  /\ UNCHANGED settings
  /\ SyncFrame

\* const settings = await loadSettings()
SyncLoadedSettings(p) ==
  /\ syncs[p].pc = "loadSettings"
  /\ SyncStep(p, IF ~settings.notificationEnabled /\ ~settings.beforeOutingNotificationEnabled
                 THEN [syncs[p] EXCEPT !.loaded = <<settings>>, !.pc = "cancelFixed"]
                 ELSE [syncs[p] EXCEPT !.loaded = <<settings>>, !.pc = "requestPermission"])
  /\ UNCHANGED scheduled

\* const hasPermission = await requestNotificationPermission()
PermissionRequested(p) ==
  /\ syncs[p].pc = "requestPermission"
  /\ SyncStep(p, [syncs[p] EXCEPT !.hasPermission = notificationPermission,
                                  !.pc = "cancelFixed"])
  /\ UNCHANGED scheduled

\* const scheduled = await Notifications.getAllScheduledNotificationsAsync()
GotAllScheduled(p) ==
  /\ syncs[p].pc \in {"cancelFixed", "cancelBeforeOuting"}
  /\ SyncStep(p, InCancelLoop(syncs[p], scheduled.notifications))
  /\ UNCHANGED scheduled

\* await Notifications.cancelScheduledNotificationAsync(notification.identifier)
CancelledNext(p) ==
  /\ syncs[p].pc \in {"cancelFixedLoop", "cancelBeforeOutingLoop"}
  /\ LET fixed == syncs[p].pc = "cancelFixedLoop"
         back == [syncs[p] EXCEPT
                    !.pc = IF fixed THEN "cancelFixed" ELSE "cancelBeforeOuting",
                    !.fixedCancelledOther =
                       @ \/ (fixed /\ syncs[p].list[1].type # "daily_check")]
     IN /\ scheduled' = cancelScheduledNotificationAsync(scheduled, syncs[p].list[1].identifier)
        /\ SyncStep(p, InCancelLoop(back, Tail(syncs[p].list)))

\* the scheduleNotificationAsync of scheduleDailyNotification(hour, minute)
ScheduledDaily(p) ==
  /\ syncs[p].pc = "scheduleDaily"
  /\ scheduled.issued < MaxIdentifiers
  /\ scheduled' = scheduleNotificationAsync(scheduled, "daily_check", 0,
                    Trigger("daily", 0, syncs[p].loaded[1].notificationTime.hour,
                            syncs[p].loaded[1].notificationTime.minute))
  /\ SyncStep(p, [syncs[p] EXCEPT !.pc = "cancelBeforeOuting"])

\* one scheduleNotificationAsync of the loop of scheduleBeforeOutingNotifications
ScheduledBeforeOuting(p) ==
  /\ syncs[p].pc = "scheduleBeforeOuting"
  /\ scheduled.issued < MaxIdentifiers
  /\ LET s == syncs[p].loaded[1]
         day == syncs[p].day
     IN /\ scheduled' = scheduleNotificationAsync(scheduled, "before_outing", day,
                          BeforeOutingTrigger(day, s.weeklySchedule[1][day][1],
                                              OrElse(s.notificationLeadTime, 30)))
        /\ SyncStep(p, AtDay(syncs[p], day + 1))

NextSync ==
  \/ \E enabled \in BOOLEAN : HandleNotificationToggle(enabled)
  \/ \E t \in {Time(7, 0), Time(8, 0)} : HandleNotificationTimeChange(t.hour, t.minute)
  \/ \E p \in Syncs : SyncLoadedSettings(p)
  \/ \E p \in Syncs : PermissionRequested(p)
  \/ \E p \in Syncs : GotAllScheduled(p)
  \/ \E p \in Syncs : CancelledNext(p)
  \/ \E p \in Syncs : ScheduledDaily(p)
  \/ \E p \in Syncs : ScheduledBeforeOuting(p)

SpecSync == InitSync /\ [][NextSync]_vars

\* ------------------------------------------------------------------------
\* Properties of the synchronisation (specification SpecSync)
\* ------------------------------------------------------------------------
\* no call is in progress
Quiescent == \A p \in Syncs : syncs[p].pc \in {"idle", "done"}

DailyChecks ==
  { i \in 1..Len(scheduled.notifications) : scheduled.notifications[i].type = "daily_check" }

\* C29: whenever no syncDailyNotificationWithSettings call is in progress,
\* at most one scheduled 'daily_check' notification exists, and none when
\* the fixed-time notification is disabled or the permission is denied,
\* for every interleaving of the calls issued at app start and by settings
\* changes; the fixed-time part never cancels a 'before_outing'
\* notification.
C29_OneDailyCheck ==
  /\ Quiescent =>
       /\ Cardinality(DailyChecks) <= 1
       /\ (~settings.notificationEnabled \/ ~notificationPermission) => DailyChecks = {}
  /\ \A p \in Syncs : ~syncs[p].fixedCancelledOther

====
